---- MODULE Spec2Model ----
(***************************************************************************)
(* Provenance-aware reconciliation of race events (yura102318/Data_Crawler) *)
(*                                                                         *)
(* The model has two parts.                                                *)
(*  - The store: the two MySQL tables race_events and race_categories, and *)
(*    the three writers of them: RaceCrawlerApp.process_event with its two *)
(*    save paths (SmartCrawlerSync.smart_sync_to_mysql and the fallback    *)
(*    Database.save_race_event) and RaceEventsManager.import_manual_edits. *)
(*  - The resolver: SmartDataCompleter.validate_and_merge and its helpers, *)
(*    pure functions of the list of source records.                        *)
(*                                                                         *)
(* Representation.  Numbers are integers: a fee is in currency units, a    *)
(* distance_numeric in 1/10000 km, a price_per_km in 1/100 currency units  *)
(* per km.  NULL stands for SQL NULL, Python None and a pandas NaN cell.   *)
(* A string column holds "" for NULL or the empty string (the code's       *)
(* lookups and truthiness tests treat the two alike).                      *)
(* manually_modified_fields is the decoded JSON list: a sequence of field  *)
(* names, << >> for NULL or '[]'.                                          *)
(***************************************************************************)
EXTENDS Integers, Sequences, FiniteSets, TLC

VARIABLES
    race_events,      \* table race_events, in id order; id = position
    race_categories,  \* table race_categories, in id order
    next_category_id, \* AUTO_INCREMENT counter of race_categories.id
    last,             \* the operation that produced the current state
    held,             \* the candidate record kept for a repeated pass
    steps,            \* operations run so far
    source_results,   \* what each of the four source collectors returned
    multi_source_data, \* the list collect_from_multiple_sources returned
    validated,        \* the result of validate_and_merge, once computed
    call,             \* a function under study and its arguments
    returned,         \* what that function returned, once it has
    all_events,       \* the list crawl_all_events returned to run
    future_to_event   \* the state of the task submitted for each list entry

storeVars == <<race_events, race_categories, next_category_id>>
resolverVars == <<source_results, multi_source_data, validated>>
callVars == <<call, returned>>
poolVars == <<all_events, future_to_event>>
vars == <<race_events, race_categories, next_category_id, last, held, steps,
          source_results, multi_source_data, validated, call, returned,
          all_events, future_to_event>>

NULL == -1

\* ------------------------------------------------------------------ bounds
MaxCats == 1      \* incoming race_categories per candidate record
MaxBatch == 1     \* rows of one imported spreadsheet
MaxId == 2        \* rows race_categories ever receives
MaxSteps == 4     \* operations in one run

\* ------------------------------------------------------------------ inputs
EventIds == {"e1"}
CatNames == {"half", "10km"}
CrawlerEventNames == {"", "crawled"}
CrawlerFees == {NULL, 0, 50}
CrawlerDistances == {NULL, 210975}
ManualEventNames == {"", "edited"}
ManualFees == {NULL, 999}
ManualDistances == {NULL, 100000}
ManualPrices == {NULL, 700}

RECURSIVE SeqsUpTo(_, _)
SeqsUpTo(S, n) ==
    IF n = 0 THEN {<< >>}
    ELSE LET shorter == SeqsUpTo(S, n - 1)
         IN shorter \cup {Append(s, x) : s \in {t \in shorter : Len(t) = n - 1}, x \in S}

\* One category of final_data['race_categories'] as process_event builds it:
\* the merged_cat dictionary has no price_per_km and no distance_numeric key
\* of its own; distance_numeric here is the number extract_distance_numeric
\* reads out of the merged 'distance' text.
CrawlerCats ==
    [name : CatNames, distance_numeric : CrawlerDistances, fee : CrawlerFees]

CrawlerData ==
    [event_id : EventIds, name : CrawlerEventNames,
     race_categories : SeqsUpTo(CrawlerCats, MaxCats)]

\* One spreadsheet row; the event columns repeat on every row of an event.
ExcelRows ==
    [event_id : EventIds, event_name : ManualEventNames, name : CatNames,
     distance_numeric : ManualDistances, fee : ManualFees,
     price_per_km : ManualPrices]

ExcelFiles ==
    {df \in SeqsUpTo(ExcelRows, MaxBatch) :
        \A i, j \in 1..Len(df) :
            df[i].event_id = df[j].event_id => df[i].event_name = df[j].event_name}

\* ------------------------------------------------------------ small helpers
Contains(seq, x) == \E i \in 1..Len(seq) : seq[i] = x

NoRecord == [id |-> 0]

StringFields == {"name"}

\* Python truthiness of a field value: None, 0 and '' are falsy.
Truthy(field, v) ==
    IF field \in StringFields THEN v # "" ELSE v # NULL /\ v # 0

\* A rounding that drops the digits after the second decimal.
Round2Down(fee, distance) == (fee * 1000000) \div distance

\* round(fee / distance, 2) in 1/100 units, distance in 1/10000 km; round()
\* takes the nearer hundredth and, on an exact tie, the even one.
Round2(fee, distance) ==
    LET n == fee * 1000000
        q == n \div distance
        r == n % distance
    IN IF 2 * r > distance THEN q + 1
       ELSE IF 2 * r = distance THEN q + (q % 2)
       ELSE q

\* cursor.fetchone() of SELECT * FROM race_events WHERE event_id = %s
SelectEvent(events, event_id) ==
    IF \E i \in 1..Len(events) : events[i].event_id = event_id
    THEN events[CHOOSE i \in 1..Len(events) : events[i].event_id = event_id]
    ELSE NoRecord

\* A lookup that finds no row, whatever the table holds.
FindCategoryNone(cats, race_event_id, cat_name) == 0

\* A lookup by race_event_id alone, without the name.
FindCategoryAnyName(cats, race_event_id, cat_name) ==
    LET hits == {i \in 1..Len(cats) : cats[i].race_event_id = race_event_id}
    IN IF hits = {} THEN 0 ELSE CHOOSE i \in hits : \A j \in hits : i <= j

\* cursor.fetchone() of SELECT * FROM race_categories WHERE race_event_id=%s
\* AND name=%s: the position of the first matching row, 0 for no row.
FindCategory(cats, race_event_id, cat_name) ==
    LET hits == {i \in 1..Len(cats) :
                    cats[i].race_event_id = race_event_id /\ cats[i].name = cat_name}
    IN IF hits = {} THEN 0 ELSE CHOOSE i \in hits : \A j \in hits : i <= j

\* ------------------------------------------------- EnhancedDataProcessor
calculate_price_per_km(fee, distance_numeric) ==
    IF ~Truthy("fee", fee) \/ ~Truthy("distance_numeric", distance_numeric) THEN NULL
    ELSE IF distance_numeric > 0 THEN Round2(fee, distance_numeric)
    ELSE NULL

\* DataProcessor.calculate_price_per_km on numbers: extract_fee_number and
\* extract_distance_number return None for a falsy argument and the number
\* itself otherwise
data_processor_calculate_price_per_km(fee, distance) ==
    LET fee_num == IF Truthy("fee", fee) THEN fee ELSE NULL
        distance_num == IF Truthy("distance_numeric", distance) THEN distance ELSE NULL
    IN IF fee_num = NULL \/ distance_num = NULL THEN NULL
       ELSE IF distance_num <= 0 THEN NULL
       ELSE IF fee_num < 0 THEN NULL
       ELSE Round2(fee_num, distance_num)

\* step 5 of process_event_data, for one category
process_category(category) ==
    [name |-> category.name,
     distance_numeric |-> category.distance_numeric,
     fee |-> category.fee,
     price_per_km |->
        IF Truthy("fee", category.fee)
           /\ Truthy("distance_numeric", category.distance_numeric)
        THEN calculate_price_per_km(category.fee, category.distance_numeric)
        ELSE NULL]

process_event_data(event_data) ==
    [event_id |-> event_data.event_id,
     name |-> event_data.name,
     race_categories |->
        [i \in 1..Len(event_data.race_categories) |->
            process_category(event_data.race_categories[i])]]

\* --------------------------------------------------------- SmartCrawlerSync
EventFieldMapping == <<"name">>
CategoryFieldMapping == <<"name", "distance_numeric", "fee", "price_per_km">>

\* A protection test that never finds a field protected.
IsProtectedNever(db_record, db_field) == FALSE

\* db_field in manually_modified
IsProtected(db_record, db_field) ==
    Contains(db_record.manually_modified_fields, db_field)

\* update_fields of the two _update_*_protected methods
ProtectedUpdateFields(mapping, db_record, crawler) ==
    {mapping[i] : i \in {j \in 1..Len(mapping) :
        /\ ~IsProtected(db_record, mapping[j])
        /\ Truthy(mapping[j], crawler[mapping[j]])}}

update_race_event_protected(db_record, crawler_data) ==
    LET update_fields == ProtectedUpdateFields(EventFieldMapping, db_record, crawler_data)
    IN [f \in DOMAIN db_record |->
          IF f \in update_fields THEN crawler_data[f] ELSE db_record[f]]

update_race_category_protected(db_record, crawler_cat) ==
    LET update_fields == ProtectedUpdateFields(CategoryFieldMapping, db_record, crawler_cat)
    IN [f \in DOMAIN db_record |->
          IF f \in update_fields THEN crawler_cat[f] ELSE db_record[f]]

\* An INSERT that records the fee it writes as manually modified.
sync_insert_race_category_marked(id, race_event_id, crawler_cat) ==
    [id |-> id,
     race_event_id |-> race_event_id,
     name |-> crawler_cat.name,
     distance_numeric |-> crawler_cat.distance_numeric,
     fee |-> crawler_cat.fee,
     price_per_km |-> crawler_cat.price_per_km,
     manually_modified_fields |-> <<"fee">>]

\* SmartCrawlerSync._insert_race_category: the row the INSERT creates
sync_insert_race_category(id, race_event_id, crawler_cat) ==
    [id |-> id,
     race_event_id |-> race_event_id,
     name |-> crawler_cat.name,
     distance_numeric |-> crawler_cat.distance_numeric,
     fee |-> crawler_cat.fee,
     price_per_km |-> crawler_cat.price_per_km,
     manually_modified_fields |-> << >>]

\* the for loop of smart_sync_to_mysql over crawler_categories
RECURSIVE SyncCategories(_, _, _, _)
SyncCategories(cats, nid, race_event_id, crawler_categories) ==
    IF crawler_categories = << >> THEN [cats |-> cats, nid |-> nid]
    ELSE LET crawler_cat == Head(crawler_categories)
             i == FindCategory(cats, race_event_id, crawler_cat.name)
         IN IF i # 0
            THEN SyncCategories(
                    [cats EXCEPT ![i] = update_race_category_protected(cats[i], crawler_cat)],
                    nid, race_event_id, Tail(crawler_categories))
            ELSE SyncCategories(
                    Append(cats, sync_insert_race_category(nid, race_event_id, crawler_cat)),
                    nid + 1, race_event_id, Tail(crawler_categories))

\* smart_sync_to_mysql on a reachable database: the committed tables and the
\* returned flag.
smart_sync_to_mysql(events, cats, nid, crawler_data) ==
    LET race_event_record == SelectEvent(events, crawler_data.event_id)
    IN IF race_event_record = NoRecord
       THEN [events |-> events, cats |-> cats, nid |-> nid, ok |-> FALSE]
       ELSE LET done == SyncCategories(cats, nid, race_event_record.id,
                                       crawler_data.race_categories)
            IN [events |-> [events EXCEPT ![race_event_record.id] =
                               update_race_event_protected(race_event_record, crawler_data)],
                cats |-> done.cats, nid |-> done.nid, ok |-> TRUE]

\* ------------------------------------------------------------------ Database
\* the RaceCategory rows _create_event and _update_event add
RECURSIVE AddCategories(_, _, _, _)
AddCategories(cats, nid, race_event_id, incoming) ==
    IF incoming = << >> THEN [cats |-> cats, nid |-> nid]
    ELSE AddCategories(
            Append(cats, [id |-> nid,
                          race_event_id |-> race_event_id,
                          name |-> Head(incoming).name,
                          distance_numeric |-> Head(incoming).distance_numeric,
                          fee |-> Head(incoming).fee,
                          price_per_km |-> Head(incoming).price_per_km,
                          manually_modified_fields |-> << >>]),
            nid + 1, race_event_id, Tail(incoming))

create_event(events, cats, nid, event_data) ==
    LET id == Len(events) + 1
        added == AddCategories(cats, nid, id, event_data.race_categories)
    IN [events |-> Append(events, [id |-> id,
                                   event_id |-> event_data.event_id,
                                   name |-> event_data.name,
                                   manually_modified_fields |-> << >>]),
        cats |-> added.cats, nid |-> added.nid, ok |-> TRUE]

update_event(events, cats, nid, existing, event_data) ==
    LET kept == SelectSeq(cats, LAMBDA c : c.race_event_id # existing.id)
        added == AddCategories(kept, nid, existing.id, event_data.race_categories)
    IN [events |-> [events EXCEPT ![existing.id].name = event_data.name],
        cats |-> added.cats, nid |-> added.nid, ok |-> TRUE]

save_race_event(events, cats, nid, event_data) ==
    LET existing == SelectEvent(events, event_data.event_id)
    IN IF existing # NoRecord
       THEN update_event(events, cats, nid, existing, event_data)
       ELSE create_event(events, cats, nid, event_data)

\* --------------------------------------------------------- RaceEventsManager
\* spreadsheet column -> db field; the event_id column is the lookup key and
\* never differs from the stored event_id.
ManagerEventFieldMapping == <<"name">>
ManagerCategoryFieldMapping == <<"name", "distance_numeric", "fee", "price_per_km">>
NumericFields == {"distance_numeric", "fee", "price_per_km"}

\* units of the integer representation per unit of the Python float
UnitsPer(field) ==
    IF field = "distance_numeric" THEN 10000
    ELSE IF field = "price_per_km" THEN 100
    ELSE 1

Abs(x) == IF x < 0 THEN 0 - x ELSE x

\* _deduplicate_excel: drop_duplicates on (event id, category), keep='first'
RECURSIVE deduplicate_excel(_)
deduplicate_excel(df) ==
    IF df = << >> THEN << >>
    ELSE LET front == deduplicate_excel(SubSeq(df, 1, Len(df) - 1))
             row == df[Len(df)]
         IN IF \E i \in 1..Len(front) :
                  front[i].event_id = row.event_id /\ front[i].name = row.name
            THEN front
            ELSE Append(front, row)

\* the cell of an event column of a spreadsheet row, by db field
EventCell(excel_row, db_field) ==
    IF db_field = "name" THEN excel_row.event_name ELSE excel_row[db_field]

\* manually_modified after the marking loop: the fields of update_values not
\* yet listed are appended in mapping order, except those never marked.
RECURSIVE MarkFields(_, _, _, _)
MarkFields(manually_modified, mapping, update_fields, unmarked) ==
    IF mapping = << >> THEN manually_modified
    ELSE LET field == Head(mapping)
         IN MarkFields(
               IF field \in update_fields /\ ~Contains(manually_modified, field)
                  /\ field \notin unmarked
               THEN Append(manually_modified, field)
               ELSE manually_modified,
               Tail(mapping), update_fields, unmarked)

update_race_event_with_mark(db_record, excel_row) ==
    LET update_fields ==
            {ManagerEventFieldMapping[i] : i \in {j \in 1..Len(ManagerEventFieldMapping) :
                LET excel_str == EventCell(excel_row, ManagerEventFieldMapping[j])
                IN excel_str # "" /\ excel_str # db_record[ManagerEventFieldMapping[j]]}}
    IN IF update_fields = {} THEN db_record
       ELSE [f \in DOMAIN db_record |->
               IF f = "manually_modified_fields"
               THEN MarkFields(db_record.manually_modified_fields,
                               ManagerEventFieldMapping, update_fields,
                               {"updated_at", "created_at"})
               ELSE IF f \in update_fields THEN EventCell(excel_row, f)
               ELSE db_record[f]]

\* whether the loop of _update_race_category_with_mark puts db_field into
\* update_values
CategoryCellDiffers(db_record, excel_row, db_field) ==
    IF db_field \in NumericFields
    THEN /\ excel_row[db_field] # NULL
         /\ \/ db_record[db_field] = NULL
            \/ Abs(excel_row[db_field] - db_record[db_field]) * 100 >= UnitsPer(db_field)
    ELSE excel_row[db_field] # "" /\ excel_row[db_field] # db_record[db_field]

manager_update_race_category_with_mark(db_record, excel_row) ==
    LET update_fields ==
            {ManagerCategoryFieldMapping[i] :
                i \in {j \in 1..Len(ManagerCategoryFieldMapping) :
                    CategoryCellDiffers(db_record, excel_row, ManagerCategoryFieldMapping[j])}}
        distance == IF "distance_numeric" \in update_fields
                    THEN excel_row.distance_numeric ELSE db_record.distance_numeric
        fee == IF "fee" \in update_fields THEN excel_row.fee ELSE db_record.fee
    IN IF update_fields = {} THEN db_record
       ELSE [f \in DOMAIN db_record |->
               IF f = "manually_modified_fields"
               THEN MarkFields(db_record.manually_modified_fields,
                               ManagerCategoryFieldMapping, update_fields,
                               {"updated_at", "created_at", "price_per_km"})
               ELSE IF f = "price_per_km"
                       /\ Truthy("distance_numeric", distance) /\ Truthy("fee", fee)
               THEN Round2(fee, distance)
               ELSE IF f \in update_fields THEN excel_row[f]
               ELSE db_record[f]]

\* RaceEventsManager._insert_race_category: the row the INSERT creates
manager_insert_race_category(id, race_event_id, excel_row) ==
    [id |-> id,
     race_event_id |-> race_event_id,
     name |-> excel_row.name,
     distance_numeric |-> excel_row.distance_numeric,
     fee |-> excel_row.fee,
     price_per_km |->
        IF excel_row.distance_numeric # NULL /\ excel_row.fee # NULL
           /\ excel_row.distance_numeric > 0
        THEN Round2(excel_row.fee, excel_row.distance_numeric)
        ELSE excel_row.price_per_km,
     manually_modified_fields |-> << >>]

\* the rows loop of import_manual_edits for one event group
RECURSIVE ImportRows(_, _, _, _)
ImportRows(cats, nid, race_event_id, rows) ==
    IF rows = << >> THEN [cats |-> cats, nid |-> nid]
    ELSE LET row == Head(rows)
             i == FindCategory(cats, race_event_id, row.name)
         IN IF i # 0
            THEN ImportRows(
                    [cats EXCEPT ![i] = manager_update_race_category_with_mark(cats[i], row)],
                    nid, race_event_id, Tail(rows))
            ELSE ImportRows(
                    Append(cats, manager_insert_race_category(nid, race_event_id, row)),
                    nid + 1, race_event_id, Tail(rows))

\* the groupby loop of import_manual_edits: one group per event id, in the
\* order of event_ids
RECURSIVE ImportGroups(_, _, _, _, _)
ImportGroups(events, cats, nid, df, event_ids) ==
    IF event_ids = << >> THEN [events |-> events, cats |-> cats, nid |-> nid]
    ELSE LET event_id == Head(event_ids)
             group == SelectSeq(df, LAMBDA r : r.event_id = event_id)
             event_record == SelectEvent(events, event_id)
         IN IF event_record = NoRecord
            THEN ImportGroups(events, cats, nid, df, Tail(event_ids))
            ELSE LET done == ImportRows(cats, nid, event_record.id, group)
                 IN ImportGroups(
                       [events EXCEPT ![event_record.id] =
                           update_race_event_with_mark(event_record, group[1])],
                       done.cats, done.nid, df, Tail(event_ids))

\* the event ids of a spreadsheet, each once, in order of first appearance
RECURSIVE GroupKeys(_)
GroupKeys(df) ==
    IF df = << >> THEN << >>
    ELSE LET front == GroupKeys(SubSeq(df, 1, Len(df) - 1))
         IN IF Contains(front, df[Len(df)].event_id) THEN front
            ELSE Append(front, df[Len(df)].event_id)

\* the delete synchronisation of import_manual_edits (enable_delete)
DeleteSync(events, cats, df) ==
    LET excel_event_ids == {df[i].event_id : i \in 1..Len(df)}
        excel_keys == {<<df[i].event_id, df[i].name>> : i \in 1..Len(df)}
        EventIdOf(c) == events[c.race_event_id].event_id
    IN SelectSeq(cats, LAMBDA c :
          ~(EventIdOf(c) \in excel_event_ids /\ <<EventIdOf(c), c.name>> \notin excel_keys))

import_manual_edits(events, cats, nid, excel_file, enable_delete) ==
    LET df == deduplicate_excel(excel_file)
        done == ImportGroups(events, cats, nid, df, GroupKeys(df))
    IN [events |-> done.events,
        cats |-> IF enable_delete THEN DeleteSync(done.events, done.cats, df) ELSE done.cats,
        nid |-> done.nid]

\* -------------------------------------------------------- SmartDataCompleter
\* A rational number; a confidence is one.  den = 0 marks a key the result
\* dictionary does not hold.
Rat(num, den) == [num |-> num, den |-> den]
Absent == Rat(0, 0)

RECURSIVE Sum(_)
Sum(seq) == IF seq = << >> THEN 0 ELSE Head(seq) + Sum(Tail(seq))

RECURSIVE Insert(_, _)
Insert(sorted, x) ==
    IF sorted = << >> THEN <<x>>
    ELSE IF x <= Head(sorted) THEN <<x>> \o sorted
    ELSE <<Head(sorted)>> \o Insert(Tail(sorted), x)

RECURSIVE Sorted(_)
Sorted(seq) == IF seq = << >> THEN << >> ELSE Insert(Sorted(Tail(seq)), Head(seq))

\* twice statistics.median(values): the middle value of the sorted list, or
\* the mean of the two middle values
Median2(values) ==
    LET s == Sorted(values)
        n == Len(s)
    IN IF n % 2 = 1 THEN 2 * s[(n + 1) \div 2] ELSE s[n \div 2] + s[n \div 2 + 1]

\* the four collectors of collect_from_multiple_sources, in call order
SourceTypes == <<"ai_search", "registration_platform", "marathon_media", "wechat_official">>

\* self.source_weights, in 1/100
source_weights(source_type) ==
    CASE source_type = "official_website" -> 100
      [] source_type = "registration_platform" -> 95
      [] source_type = "marathon_media" -> 85
      [] source_type = "wechat_official" -> 90
      [] source_type = "ai_search" -> 70
      [] source_type = "inference" -> 60

NoSource == [found |-> FALSE]
\* a collector whose search or extraction raised
SourceRaised == [found |-> FALSE, raised |-> TRUE]
DistanceLabels == {"21km", "21.0975km"}
ScaleValues == {NULL, 1000, 3000}
FeeValues == {NULL, 100, 500, 1000}
\* what one collector returns: nothing, or a total_scale and one category
\* (named and with a distance, so that _is_valid_category accepts it)
SourceRecords(scales, fees, distances) ==
    [found : {TRUE}, total_scale : scales, fee : fees, distance : distances]

SourceReturns ==
    {NoSource, SourceRaised} \cup SourceRecords(ScaleValues, FeeValues, {"21.0975km"})

\* the same collectors reporting only the distance label of the category
DistanceReturns ==
    {NoSource, SourceRaised} \cup SourceRecords({NULL}, {NULL}, DistanceLabels)

\* A collector without its try/except: what was raised comes out.
source_search_unguarded(outcome) == outcome

\* source1_ai_search .. source4_wechat_deep_search: the except clause turns
\* a raised exception into the return value None
source_search(outcome) == IF outcome = SourceRaised THEN NoSource ELSE outcome

\* sources_data: the returned records in call order, each with the
\* confidence_base of its source type
RECURSIVE collect_from_multiple_sources(_, _)
collect_from_multiple_sources(results, k) ==
    IF k > Len(results) THEN << >>
    ELSE IF source_search(results[k]).found
         THEN <<[source_type |-> SourceTypes[k],
                 confidence_base |-> source_weights(SourceTypes[k]),
                 total_scale |-> results[k].total_scale,
                 fee |-> results[k].fee,
                 distance |-> results[k].distance]>>
              \o collect_from_multiple_sources(results, k + 1)
         ELSE collect_from_multiple_sources(results, k + 1)

\* re.sub(r'[^\d.]', '', str(v)) read back as a number: the sign is dropped
DigitsOf(v) == IF v < 0 THEN 0 - v ELSE v

\* total_scales of validate_and_merge: the candidates passing 100..100000
RECURSIVE ScaleCandidates(_)
ScaleCandidates(sources_data) ==
    IF sources_data = << >> THEN << >>
    ELSE LET source == Head(sources_data)
             scale == DigitsOf(source.total_scale)
         IN IF source.total_scale # NULL /\ source.total_scale # 0
               /\ 100 <= scale /\ scale <= 100000
            THEN <<[value |-> scale, confidence |-> source.confidence_base]>>
                 \o ScaleCandidates(Tail(sources_data))
            ELSE ScaleCandidates(Tail(sources_data))

\* fees of _merge_single_category: the candidates passing 0 < fee < 1000
RECURSIVE FeeCandidates(_)
FeeCandidates(categories) ==
    IF categories = << >> THEN << >>
    ELSE LET c == Head(categories)
             fee == DigitsOf(c.fee)
         IN IF c.fee # NULL /\ c.fee # 0 /\ 0 < fee /\ fee < 1000
            THEN <<fee>> \o FeeCandidates(Tail(categories))
            ELSE FeeCandidates(Tail(categories))

Values(values) == [i \in 1..Len(values) |-> values[i].value]
Weights(values) == [i \in 1..Len(values) |-> values[i].confidence]

\* _weighted_consensus: int(weighted_sum / total_weight), 'null' for no value
weighted_consensus(values) ==
    IF values = << >> THEN NULL
    ELSE IF Len(values) = 1 THEN values[1].value
    ELSE LET total_weight == Sum(Weights(values))
             weighted_sum == Sum([i \in 1..Len(values) |->
                                     values[i].value * values[i].confidence])
         IN IF total_weight > 0 THEN weighted_sum \div total_weight
            ELSE values[1].value

\* _calculate_field_confidence:
\*   base_confidence * max(0, 1 - mean(|n - avg| / avg)),  avg = mean(nums)
calculate_field_confidence(values) ==
    IF values = << >> THEN Rat(0, 1)
    ELSE IF Len(values) = 1 THEN Rat(values[1].confidence, 100)
    ELSE LET n == Len(values)
             total == Sum(Values(values))
             spread == Sum([i \in 1..n |-> Abs(n * values[i].value - total)])
             consistent == n * total - spread
         IN IF total > 0
            THEN Rat(Sum(Weights(values)) * (IF consistent > 0 THEN consistent ELSE 0),
                     100 * n * n * total)
            ELSE Rat(Sum(Weights(values)), 100 * n)

\* the fee part of _merge_single_category: fee and fee_confidence
merge_single_category_fee(categories) ==
    LET fees == FeeCandidates(categories)
        n == Len(fees)
        median2 == Median2(fees)
    IN IF fees = << >> THEN [fee |-> Absent, fee_confidence |-> Absent]
       ELSE IF n = 1 THEN [fee |-> Rat(fees[1], 1), fee_confidence |-> Rat(1, 1)]
       ELSE [fee |-> Rat(median2, 2),
             fee_confidence |->
                Rat(n * median2 - Sum([i \in 1..n |-> Abs(2 * fees[i] - median2)]),
                    n * median2)]

\* The iteration orders a set of distance labels can have: the order of a
\* Python set of strings follows the strings' hashes, which differ from one
\* interpreter run to the next.
SetOrders ==
    {order \in [1..Cardinality(DistanceLabels) -> DistanceLabels] :
        \A i, j \in DOMAIN order : i # j => order[i] # order[j]}

Count(seq, x) == Cardinality({i \in 1..Len(seq) : seq[i] = x})

\* the distance part of _merge_single_category:
\* max(set(distances), key=distances.count) returns the first label, in the
\* set's iteration order, that no other label outnumbers
merge_single_category_distance(categories, set_order) ==
    LET distances == [i \in 1..Len(categories) |-> categories[i].distance]
        present == {i \in DOMAIN set_order : Count(distances, set_order[i]) > 0}
        best == CHOOSE i \in present :
                    /\ \A j \in present :
                          Count(distances, set_order[j]) <= Count(distances, set_order[i])
                    /\ \A j \in present :
                          j < i => Count(distances, set_order[j]) < Count(distances, set_order[i])
    IN IF Cardinality(present) = 1
       THEN [distance |-> set_order[best], distance_confidence |-> Rat(1, 1)]
       ELSE [distance |-> set_order[best],
             distance_confidence |->
                Rat(Count(distances, set_order[best]), Len(distances))]

\* _merge_categories_with_validation for the one category name of the
\* sources: a single record is taken as it is, several are merged
merge_categories_with_validation(categories, set_order) ==
    IF categories = << >> THEN << >>
    ELSE IF Len(categories) = 1
    THEN <<[fee |-> IF categories[1].fee = NULL THEN Absent ELSE Rat(categories[1].fee, 1),
            fee_confidence |-> Absent,
            distance |-> categories[1].distance,
            distance_confidence |-> Absent,
            confidence |-> Rat(categories[1].confidence_base, 100),
            sources |-> 1]>>
    ELSE LET m == merge_single_category_fee(categories)
             d == merge_single_category_distance(categories, set_order)
         IN <<[fee |-> m.fee, fee_confidence |-> m.fee_confidence,
               distance |-> d.distance,
               distance_confidence |-> d.distance_confidence,
               confidence |-> Absent,
               sources |-> Len(categories)]>>

validate_and_merge(sources_data, set_order) ==
    IF sources_data = << >> THEN [empty |-> TRUE]
    ELSE LET total_scales == ScaleCandidates(sources_data)
         IN [empty |-> FALSE,
             total_scale |-> weighted_consensus(total_scales),
             total_scale_confidence |->
                IF total_scales = << >> THEN Absent
                ELSE calculate_field_confidence(total_scales),
             scale_candidates |-> total_scales,
             race_categories |-> merge_categories_with_validation(sources_data, set_order)]

NotValidated == [empty |-> TRUE, pending |-> TRUE]

\* complete_event_data left by an exception: no result
CompletionRaised == [empty |-> TRUE, raised |-> TRUE]

\* an exception leaves a collector and, nothing catching it, leaves
\* collect_from_multiple_sources and complete_event_data
Escapes(results) == \E k \in 1..Len(results) : source_search(results[k]) = SourceRaised

NoCall == [fn |-> ""]
NotReturned == [fn |-> ""]

\* the string literals of the matchers, character by character
ZU == <<"zu">>
GONGLI == <<"gong", "li">>
KM_LOWER == <<"k", "m">>
KM_UPPER == <<"K", "M">>
QUANCHENG == <<"quan", "cheng">>
QUANMA == <<"quan", "ma">>
FULL == <<"f", "u", "l", "l">>
MARATHON == <<"m", "a", "r", "a", "t", "h", "o", "n">>
FORTYTWO == <<"4", "2">>
BANCHENG == <<"ban", "cheng">>
BANMA == <<"ban", "ma">>
HALF == <<"h", "a", "l", "f">>
TWENTYONE == <<"2", "1">>
TEN == <<"1", "0">>
SHIGONGLI == <<"shi", "gong", "li">>
FIVE == <<"5">>
WUGONGLI == <<"wu", "gong", "li">>
FULL_MARATHON == <<"quan", "cheng", "ma", "la", "song">>
HALF_MARATHON == <<"ban", "cheng", "ma", "la", "song">>
TEN_KM == <<"1", "0", "gong", "li">>
FIVE_KM == <<"5", "gong", "li">>
MALASONG == <<"ma", "la", "song">>
MINI == <<"mi", "ni">>
JIANKANGPAO == <<"jian", "kang", "pao">>
QINZIPAO == <<"qin", "zi", "pao">>
TEN_KM_LATIN == <<"1", "0", "k", "m">>
FIVE_KM_LATIN == <<"5", "k", "m">>

TEN_K == <<"1", "0", "k">>
FIVE_K == <<"5", "k">>
MINI_LATIN == <<"m", "i", "n", "i">>
JIANKANG == <<"jian", "kang">>

EnhancedKeywords ==
    {QUANCHENG, BANCHENG, MALASONG, MINI, JIANKANGPAO, QINZIPAO,
     TEN_KM, FIVE_KM, TEN_KM_LATIN, FIVE_KM_LATIN}

\* the category names the matchers are given
NAME_BANMA_ZU == <<"ban", "ma", "zu">>
NAME_TEN_KM_UPPER == <<" ", "1", "0", "K", "M", " ">>
NAME_MEN_TEN == <<"nan", "zi", "1", "0", "gong", "li">>
NAME_WOMEN_TEN == <<"nv", "zi", "1", "0", "gong", "li">>
NAME_HALF_21 == <<"ban", "cheng", "2", "1", ".", "0", "9", "7", "5", "k", "m">>
NAME_MINI == <<"mi", "ni", "ma", "la", "song">>
NAME_H21 == <<"H", "a", "l", "f", " ", "2", "1", ".", "0", "9", "7", "5">>

MatcherNames ==
    {HALF_MARATHON, BANMA, FULL_MARATHON, TEN_KM, NAME_BANMA_ZU, NAME_TEN_KM_UPPER,
     NAME_MEN_TEN, NAME_WOMEN_TEN, NAME_HALF_21, NAME_MINI, NAME_H21, GONGLI}

\* ---------------------------------------------------- category name matchers
\* A name is the sequence of its characters; a Chinese character is written
\* as its pinyin syllable.
Digits == {"0", "1", "2", "3", "4", "5", "6", "7", "8", "9"}

\* str.lower() on the letters the names use
LowerChar(c) ==
    CASE c = "K" -> "k"
      [] c = "M" -> "m"
      [] c = "H" -> "h"
      [] c = "A" -> "a"
      [] c = "B" -> "b"
      [] c = "C" -> "c"
      [] c = "D" -> "d"
      [] c = "E" -> "e"
      [] c = "G" -> "g"
      [] c = "I" -> "i"
      [] c = "L" -> "l"
      [] c = "N" -> "n"
      [] c = "O" -> "o"
      [] c = "R" -> "r"
      [] c = "S" -> "s"
      [] c = "T" -> "t"
      [] c = "U" -> "u"
      [] OTHER -> c

Lower(name) == [i \in 1..Len(name) |-> LowerChar(name[i])]

\* str.strip(): leading and trailing blanks removed
RECURSIVE StripLeft(_)
StripLeft(name) ==
    IF name # << >> /\ Head(name) = " " THEN StripLeft(Tail(name)) ELSE name

RECURSIVE StripRight(_)
StripRight(name) ==
    IF name # << >> /\ name[Len(name)] = " "
    THEN StripRight(SubSeq(name, 1, Len(name) - 1)) ELSE name

Strip(name) == StripRight(StripLeft(name))

StartsWith(name, part) ==
    Len(part) <= Len(name) /\ SubSeq(name, 1, Len(part)) = part

\* part in name
IsIn(part, name) ==
    \E i \in 0..Len(name) :
        i + Len(part) <= Len(name) /\ SubSeq(name, i + 1, i + Len(part)) = part

\* name.replace(part, ''), left to right
RECURSIVE Remove(_, _)
Remove(name, part) ==
    IF name = << >> THEN << >>
    ELSE IF StartsWith(name, part) THEN Remove(SubSeq(name, Len(part) + 1, Len(name)), part)
    ELSE <<Head(name)>> \o Remove(Tail(name), part)

\* the length of the run of digits name starts with
RECURSIVE DigitRun(_)
DigitRun(name) ==
    IF name # << >> /\ Head(name) \in Digits THEN 1 + DigitRun(Tail(name)) ELSE 0

\* re.findall(r'\d+\.?\d*', name)
RECURSIVE FindNumbers(_)
FindNumbers(name) ==
    IF name = << >> THEN << >>
    ELSE IF Head(name) \notin Digits THEN FindNumbers(Tail(name))
    ELSE LET whole == DigitRun(name)
             rest == SubSeq(name, whole + 1, Len(name))
             dot == rest # << >> /\ Head(rest) = "."
             token == IF dot THEN whole + 1 + DigitRun(Tail(rest)) ELSE whole
         IN <<SubSeq(name, 1, token)>> \o FindNumbers(SubSeq(name, token + 1, Len(name)))

\* the suffixes _is_similar_name removes, in the order it removes them
Suffixes == <<ZU, GONGLI, KM_LOWER, KM_UPPER>>

RECURSIVE RemoveAll(_, _)
RemoveAll(name, parts) ==
    IF parts = << >> THEN name ELSE RemoveAll(Remove(name, Head(parts)), Tail(parts))

\* enhanced_html_extractor._is_similar_name
is_similar_name(name1, name2) ==
    IF name1 = << >> \/ name2 = << >> THEN FALSE
    ELSE LET n1 == Lower(RemoveAll(Strip(name1), Suffixes))
             n2 == Lower(RemoveAll(Strip(name2), Suffixes))
             num1 == FindNumbers(n1)
             num2 == FindNumbers(n2)
         IN IF n1 = n2 THEN TRUE
            ELSE IF IsIn(n1, n2) \/ IsIn(n2, n1) THEN TRUE
            ELSE IF num1 # << >> /\ num2 # << >> /\ num1 = num2 THEN TRUE
            ELSE FALSE

AnyIn(keywords, name) == \E k \in keywords : IsIn(k, name)

\* SmartDataCompleter._normalize_category_name
normalize_category_name(name) ==
    IF name = << >> THEN << >>
    ELSE LET n == Lower(Strip(name))
         IN IF AnyIn({QUANCHENG, QUANMA, FULL, MARATHON, FORTYTWO}, n) THEN FULL_MARATHON
            ELSE IF AnyIn({BANCHENG, BANMA, HALF, TWENTYONE}, n) THEN HALF_MARATHON
            ELSE IF IsIn(TEN, n) \/ IsIn(SHIGONGLI, n) THEN TEN_KM
            ELSE IF IsIn(FIVE, n) \/ IsIn(WUGONGLI, n) THEN FIVE_KM
            ELSE n

\* SmartDataCompleter._is_similar_category_name
smart_is_similar_category_name(name1, name2) ==
    normalize_category_name(name1) = normalize_category_name(name2)

\* EnhancedDataCompleter._is_similar_category_name
enhanced_is_similar_category_name(name1, name2) ==
    \E keyword \in EnhancedKeywords :
        IsIn(keyword, Lower(name1)) /\ IsIn(keyword, Lower(name2))

\* ------------------------------------------------------ inference and merge
\* A category dictionary; a flag is TRUE when the dictionary holds the key.
Category(name, distance, fee, total_quota) ==
    [name |-> name, distance |-> distance, fee |-> fee, total_quota |-> total_quota,
     inferred |-> FALSE, distance_inferred |-> FALSE, fee_inferred |-> FALSE]

\* the dictionary {} that validate_and_merge returns for no source
EmptyData ==
    [empty |-> TRUE, total_scale |-> NULL, total_scale_inferred |-> FALSE,
     race_categories |-> << >>]

Data(total_scale, categories) ==
    [empty |-> FALSE, total_scale |-> total_scale, total_scale_inferred |-> FALSE,
     race_categories |-> categories]

\* self.standard_races, in dictionary order: name, distance, keywords
standard_races ==
    <<[name |-> FULL_MARATHON, distance |-> "42.195km",
       keywords |-> {QUANMA, QUANCHENG, MARATHON, FORTYTWO}],
      [name |-> HALF_MARATHON, distance |-> "21.0975km",
       keywords |-> {BANMA, BANCHENG, HALF, TWENTYONE}],
      [name |-> TEN_KM, distance |-> "10km",
       keywords |-> {TEN_KM, TEN_KM_LATIN, TEN_K}],
      [name |-> FIVE_KM, distance |-> "5km",
       keywords |-> {FIVE_KM, FIVE_KM_LATIN, FIVE_K}],
      [name |-> NAME_MINI, distance |-> "5km", keywords |-> {MINI, MINI_LATIN}],
      [name |-> JIANKANGPAO, distance |-> "3km", keywords |-> {JIANKANGPAO, JIANKANG}]>>

\* _infer_categories_from_name
RECURSIVE InferFromRaces(_, _)
InferFromRaces(name_lower, k) ==
    IF k > Len(standard_races) THEN << >>
    ELSE IF AnyIn(standard_races[k].keywords, name_lower)
         THEN <<Category(standard_races[k].name, standard_races[k].distance, NULL, NULL)>>
              \o InferFromRaces(name_lower, k + 1)
         ELSE InferFromRaces(name_lower, k + 1)

infer_categories_from_name(event_name) ==
    LET categories == InferFromRaces(Lower(event_name), 1)
    IN IF categories # << >> THEN categories
       ELSE IF IsIn(MALASONG, event_name) \/ IsIn(MARATHON, Lower(event_name))
            THEN <<Category(FULL_MARATHON, "42.195km", NULL, NULL),
                   Category(HALF_MARATHON, "21.0975km", NULL, NULL)>>
            ELSE << >>

\* _infer_distance_from_name, for names that hold no number of kilometres
infer_distance_from_name(category_name) ==
    LET hits == {k \in 1..Len(standard_races) :
                    AnyIn(standard_races[k].keywords, Lower(category_name))}
    IN IF category_name = << >> \/ hits = {} THEN ""
       ELSE standard_races[CHOOSE k \in hits : \A j \in hits : k <= j].distance

\* fee_ranges of _infer_fee_from_history, in dictionary order
fee_ranges ==
    <<[race_type |-> FULL_MARATHON, min_fee |-> 100, max_fee |-> 180],
      [race_type |-> HALF_MARATHON, min_fee |-> 80, max_fee |-> 150],
      [race_type |-> TEN_KM, min_fee |-> 60, max_fee |-> 100],
      [race_type |-> FIVE_KM, min_fee |-> 50, max_fee |-> 80],
      [race_type |-> NAME_MINI, min_fee |-> 50, max_fee |-> 80]>>

\* _infer_fee_from_history: the middle of the first range whose race type
\* the category name holds
infer_fee_from_history(category_name) ==
    LET hits == {k \in 1..Len(fee_ranges) : IsIn(fee_ranges[k].race_type, category_name)}
        k == CHOOSE i \in hits : \A j \in hits : i <= j
    IN IF hits = {} THEN NULL
       ELSE (fee_ranges[k].min_fee + fee_ranges[k].max_fee) \div 2

RECURSIVE SumQuotas(_)
SumQuotas(categories) ==
    IF categories = << >> THEN 0
    ELSE (IF Truthy("total_quota", Head(categories).total_quota)
          THEN DigitsOf(Head(categories).total_quota) ELSE 0)
         + SumQuotas(Tail(categories))

intelligent_inference(validated_data, event_name) ==
    LET inferred_cats == infer_categories_from_name(event_name)
        cats1 == IF validated_data.race_categories = << >>
                 THEN [i \in 1..Len(inferred_cats) |->
                          [inferred_cats[i] EXCEPT !.inferred = TRUE]]
                 ELSE validated_data.race_categories
        cats2 == [i \in 1..Len(cats1) |->
                    IF cats1[i].distance = ""
                       /\ infer_distance_from_name(cats1[i].name) # ""
                    THEN [cats1[i] EXCEPT
                            !.distance = infer_distance_from_name(cats1[i].name),
                            !.distance_inferred = TRUE]
                    ELSE cats1[i]]
        cats3 == [i \in 1..Len(cats2) |->
                    IF ~Truthy("fee", cats2[i].fee)
                       /\ infer_fee_from_history(cats2[i].name) # NULL
                    THEN [cats2[i] EXCEPT
                            !.fee = infer_fee_from_history(cats2[i].name),
                            !.fee_inferred = TRUE]
                    ELSE cats2[i]]
        total == SumQuotas(cats3)
        infer_scale == ~Truthy("total_scale", validated_data.total_scale) /\ total > 0
    IN [empty |-> validated_data.empty /\ cats3 = << >>,
        total_scale |-> IF infer_scale THEN total ELSE validated_data.total_scale,
        total_scale_inferred |-> infer_scale,
        race_categories |-> cats3]

is_valid_category(category) == category.name # << >> /\ category.distance # ""

\* the first category of completed_cats that orig_cat matches, 0 for none
FirstSimilar(orig_cat, completed_cats) ==
    LET hits == {j \in 1..Len(completed_cats) :
                    /\ normalize_category_name(orig_cat.name) # << >>
                    /\ normalize_category_name(completed_cats[j].name) # << >>
                    /\ smart_is_similar_category_name(
                          normalize_category_name(orig_cat.name),
                          normalize_category_name(completed_cats[j].name))}
    IN IF hits = {} THEN 0 ELSE CHOOSE j \in hits : \A h \in hits : j <= h

\* A completion that takes every field the completed category has.
FillCategoryOverwrites(orig_cat, comp_cat) ==
    [orig_cat EXCEPT
        !.distance = IF comp_cat.distance # "" THEN comp_cat.distance ELSE @,
        !.fee = IF Truthy("fee", comp_cat.fee) THEN comp_cat.fee ELSE @,
        !.total_quota = IF Truthy("total_quota", comp_cat.total_quota)
                        THEN comp_cat.total_quota ELSE @]

\* the field-by-field completion of one original category
FillCategory(orig_cat, comp_cat) ==
    [orig_cat EXCEPT
        !.distance = IF orig_cat.distance = "" /\ comp_cat.distance # ""
                     THEN comp_cat.distance ELSE @,
        !.fee = IF ~Truthy("fee", orig_cat.fee) /\ Truthy("fee", comp_cat.fee)
                THEN comp_cat.fee ELSE @,
        !.total_quota = IF ~Truthy("total_quota", orig_cat.total_quota)
                           /\ Truthy("total_quota", comp_cat.total_quota)
                        THEN comp_cat.total_quota ELSE @]

merge_completed_data(original_data, completed_data) ==
    IF completed_data.empty THEN original_data
    ELSE LET original_cats == original_data.race_categories
             completed_cats == completed_data.race_categories
             filled == [i \in 1..Len(original_cats) |->
                          IF FirstSimilar(original_cats[i], completed_cats) = 0
                          THEN original_cats[i]
                          ELSE FillCategory(original_cats[i],
                                  completed_cats[FirstSimilar(original_cats[i], completed_cats)])]
             orig_names == {normalize_category_name(original_cats[i].name) :
                               i \in 1..Len(original_cats)}
             added == SelectSeq(completed_cats, LAMBDA c :
                          /\ normalize_category_name(c.name) # << >>
                          /\ normalize_category_name(c.name) \notin orig_names
                          /\ is_valid_category(c))
         IN [empty |-> FALSE,
             total_scale |->
                IF Truthy("total_scale", completed_data.total_scale)
                   /\ ~Truthy("total_scale", original_data.total_scale)
                THEN completed_data.total_scale ELSE original_data.total_scale,
             total_scale_inferred |-> original_data.total_scale_inferred,
             race_categories |->
                IF completed_cats = << >> THEN original_cats
                ELSE IF original_cats = << >> THEN completed_cats
                ELSE filled \o added]

\* check_missing_fields(structured_data)['has_missing']
has_missing(structured_data) ==
    \/ ~Truthy("total_scale", structured_data.total_scale)
    \/ structured_data.race_categories = << >>
    \/ \E i \in 1..Len(structured_data.race_categories) :
          LET category == structured_data.race_categories[i]
          IN \/ category.name = << >>
             \/ category.distance = ""
             \/ ~Truthy("fee", category.fee)
             \/ ~Truthy("total_quota", category.total_quota)

\* ------------------------------------------------------------- the machine
NoData == [event_id |-> ""]

CategoryNames(event_data) ==
    {event_data.race_categories[i].name : i \in 1..Len(event_data.race_categories)}

\* What `last` records of an operation: its kind, the flag it returned, the
\* event and category names of its input, the value of next_category_id when
\* it started, and whether the first pass (for a repeated pass) or the
\* pass's own uncommitted writes (for a failed pass) changed the store.
Record(op, ok, event_id, names, first_changed) ==
    [op |-> op, ok |-> ok, event_id |-> event_id, names |-> names,
     first_id |-> next_category_id, first_changed |-> first_changed]

Init ==
    /\ race_events = << >>
    /\ race_categories = << >>
    /\ next_category_id = 1
    /\ last = [op |-> "init", ok |-> TRUE, event_id |-> "", names |-> {},
               first_id |-> 1, first_changed |-> FALSE]
    /\ held = NoData
    /\ steps = 0
    /\ source_results = << >>
    /\ multi_source_data = << >>
    /\ validated = NotValidated
    /\ call = NoCall
    /\ returned = NotReturned
    /\ all_events = << >>
    /\ future_to_event = << >>

Commit(r) ==
    /\ r.nid <= MaxId + 1
    /\ steps < MaxSteps
    /\ steps' = steps + 1
    /\ race_events' = r.events
    /\ race_categories' = r.cats
    /\ next_category_id' = r.nid
    /\ UNCHANGED resolverVars
    /\ UNCHANGED callVars
    /\ UNCHANGED poolVars

NoCommit ==
    /\ steps < MaxSteps
    /\ steps' = steps + 1
    /\ UNCHANGED storeVars
    /\ UNCHANGED resolverVars
    /\ UNCHANGED callVars
    /\ UNCHANGED poolVars

\* process_event step 6, SmartCrawlerSync importable and the database
\* reachable: process_event_data, then smart_sync_to_mysql.
ProcessEventSmart(event_data) ==
    /\ steps < MaxSteps
    /\ LET final_data == process_event_data(event_data)
           r == smart_sync_to_mysql(race_events, race_categories, next_category_id, final_data)
       IN /\ Commit(r)
          /\ last' = Record("sync", r.ok, event_data.event_id, CategoryNames(event_data), FALSE)

\* A connection that goes away with its writes still there.
connection_lost_keeps(committed, uncommitted) ==
    [events |-> uncommitted.events, cats |-> uncommitted.cats,
     nid |-> uncommitted.nid, ok |-> FALSE]

\* The except branch of smart_sync_to_mysql: conn.commit() was not reached
\* and the connection is dropped, so the server discards the transaction's
\* writes.
connection_lost(committed, uncommitted) ==
    [events |-> committed.events, cats |-> committed.cats,
     nid |-> committed.nid, ok |-> FALSE]

\* smart_sync_to_mysql raises before its commit, after it has handled the
\* first `done` categories (a failing connect or first SELECT is the case of
\* a pass that had nothing to write yet).
ProcessEventSmartFails(event_data, done) ==
    /\ steps < MaxSteps
    /\ LET final_data == process_event_data(event_data)
           attempted == [final_data EXCEPT !.race_categories = SubSeq(@, 1, done)]
           committed == [events |-> race_events, cats |-> race_categories,
                         nid |-> next_category_id, ok |-> TRUE]
           uncommitted == smart_sync_to_mysql(race_events, race_categories,
                                              next_category_id, attempted)
           r == connection_lost(committed, uncommitted)
       IN /\ Commit(r)
          /\ last' = Record("sync_failed", FALSE, event_data.event_id,
                            CategoryNames(attempted),
                            <<uncommitted.events, uncommitted.cats>>
                               # <<race_events, race_categories>>)

\* process_event step 6 when the import of SmartCrawlerSync raises: the plain
\* save, Database.save_race_event.
ProcessEventFallback(event_data) ==
    /\ steps < MaxSteps
    /\ LET final_data == process_event_data(event_data)
           r == save_race_event(race_events, race_categories, next_category_id, final_data)
       IN /\ Commit(r)
          /\ last' = Record("save", r.ok, event_data.event_id, CategoryNames(event_data), FALSE)

\* save_race_event raises: session.rollback(), return False.
ProcessEventFallbackFails(event_id) ==
    /\ NoCommit
    /\ last' = Record("save_failed", FALSE, event_id, {}, FALSE)

ImportManualEdits(excel_file, enable_delete) ==
    /\ steps < MaxSteps
    /\ LET r == import_manual_edits(race_events, race_categories, next_category_id,
                                    excel_file, enable_delete)
       IN /\ Commit(r)
          /\ last' = Record("manual", TRUE, "",
                            {excel_file[i].name : i \in 1..Len(excel_file)}, FALSE)

Next ==
    \/ \E event_data \in CrawlerData : ProcessEventSmart(event_data) /\ UNCHANGED held
    \/ \E event_data \in CrawlerData, done \in 0..MaxCats :
          /\ done <= Len(event_data.race_categories)
          /\ ProcessEventSmartFails(event_data, done)
          /\ UNCHANGED held
    \/ \E event_data \in CrawlerData : ProcessEventFallback(event_data) /\ UNCHANGED held
    \/ \E event_id \in EventIds : ProcessEventFallbackFails(event_id) /\ UNCHANGED held
    \/ \E excel_file \in ExcelFiles, enable_delete \in BOOLEAN :
          ImportManualEdits(excel_file, enable_delete) /\ UNCHANGED held

Spec == Init /\ [][Next]_vars

\* ------------------------------------------------- the same pass, run twice
\* process_event run for a candidate record that is then kept ...
FirstPass(event_data) ==
    /\ steps < MaxSteps
    /\ LET final_data == process_event_data(event_data)
           r == smart_sync_to_mysql(race_events, race_categories, next_category_id, final_data)
       IN /\ Commit(r)
          /\ last' = Record("sync", r.ok, event_data.event_id, CategoryNames(event_data), FALSE)
          /\ held' = [data |-> event_data,
                      changed |-> <<r.events, r.cats>> # <<race_events, race_categories>>]

\* ... and run again for the same record, with nothing in between.
RepeatPass ==
    /\ steps < MaxSteps
    /\ LET final_data == process_event_data(held.data)
           r == smart_sync_to_mysql(race_events, race_categories, next_category_id, final_data)
       IN /\ Commit(r)
          /\ last' = Record("resync", r.ok, held.data.event_id, CategoryNames(held.data),
                            held.changed)
          /\ held' = NoData

NextTwice ==
    \/ held = NoData /\ Next
    \/ held = NoData /\ \E event_data \in CrawlerData : FirstPass(event_data)
    \/ held # NoData /\ RepeatPass

SpecTwice == Init /\ [][NextTwice]_vars

\* ------------------------------------------------- one completion, resolved
InitResolver ==
    /\ race_events = << >>
    /\ race_categories = << >>
    /\ next_category_id = 1
    /\ last = [op |-> "init", ok |-> TRUE, event_id |-> "", names |-> {},
               first_id |-> 1, first_changed |-> FALSE]
    /\ held = NoData
    /\ steps = 0
    /\ source_results \in [1..Len(SourceTypes) -> SourceReturns]
    /\ multi_source_data = << >>
    /\ validated = NotValidated
    /\ call = NoCall
    /\ returned = NotReturned
    /\ all_events = << >>
    /\ future_to_event = << >>

\* steps 2 and 3 of complete_event_data
ValidateAndMerge ==
    /\ validated = NotValidated
    /\ IF Escapes(source_results)
       THEN /\ multi_source_data' = << >>
            /\ validated' = CompletionRaised
       ELSE /\ multi_source_data' = collect_from_multiple_sources(source_results, 1)
            /\ \E set_order \in SetOrders :
                  validated' = validate_and_merge(multi_source_data', set_order)
    /\ UNCHANGED <<race_events, race_categories, next_category_id, last, held, steps,
                   source_results>>
    /\ UNCHANGED callVars
    /\ UNCHANGED poolVars

NextResolver == ValidateAndMerge

SpecResolver == InitResolver /\ [][NextResolver]_vars

\* ------------------------------------- one completion over distance labels
InitDistance ==
    /\ race_events = << >>
    /\ race_categories = << >>
    /\ next_category_id = 1
    /\ last = [op |-> "init", ok |-> TRUE, event_id |-> "", names |-> {},
               first_id |-> 1, first_changed |-> FALSE]
    /\ held = NoData
    /\ steps = 0
    /\ source_results \in [1..Len(SourceTypes) -> DistanceReturns]
    /\ multi_source_data = << >>
    /\ validated = NotValidated
    /\ call = NoCall
    /\ returned = NotReturned
    /\ all_events = << >>
    /\ future_to_event = << >>

SpecDistance == InitDistance /\ [][NextResolver]_vars

\* ------------------------------------------------- the matchers, applied
CallIdle ==
    /\ race_events = << >>
    /\ race_categories = << >>
    /\ next_category_id = 1
    /\ last = [op |-> "init", ok |-> TRUE, event_id |-> "", names |-> {},
               first_id |-> 1, first_changed |-> FALSE]
    /\ held = NoData
    /\ steps = 0
    /\ source_results = << >>
    /\ multi_source_data = << >>
    /\ validated = NotValidated

PoolIdle ==
    /\ all_events = << >>
    /\ future_to_event = << >>

CallUnchanged ==
    UNCHANGED <<race_events, race_categories, next_category_id, last, held, steps,
                source_results, multi_source_data, validated, call,
                all_events, future_to_event>>

InitMatcher ==
    /\ CallIdle
    /\ PoolIdle
    /\ call \in [fn : {"is_similar_name"}, name1 : MatcherNames, name2 : MatcherNames]
    /\ returned = NotReturned

IsSimilarName ==
    /\ returned = NotReturned
    /\ returned' = [fn |-> "_is_similar_name",
                    value |-> is_similar_name(call.name1, call.name2)]
    /\ CallUnchanged

SmartIsSimilarCategoryName ==
    /\ returned = NotReturned
    /\ returned' = [fn |-> "SmartDataCompleter._is_similar_category_name",
                    value |-> smart_is_similar_category_name(call.name1, call.name2)]
    /\ CallUnchanged

EnhancedIsSimilarCategoryName ==
    /\ returned = NotReturned
    /\ returned' = [fn |-> "EnhancedDataCompleter._is_similar_category_name",
                    value |-> enhanced_is_similar_category_name(call.name1, call.name2)]
    /\ CallUnchanged

NextMatcher ==
    \/ IsSimilarName
    \/ SmartIsSimilarCategoryName
    \/ EnhancedIsSimilarCategoryName

SpecMatcher == InitMatcher /\ [][NextMatcher]_vars

\* ------------------------------------------------ the unit price, computed
PriceFees == {NULL, 0, 1, 5, 50, 80, 100, 120}
PriceDistances == {NULL, 0, 30000, 50000, 80000, 100000, 210975, 421950}

InitPrice ==
    /\ CallIdle
    /\ PoolIdle
    /\ call \in [fn : {"calculate_price_per_km"}, fee : PriceFees,
                 distance : PriceDistances]
    /\ returned = NotReturned

CalculatePricePerKm ==
    /\ returned = NotReturned
    /\ returned' = [fn |-> "DataProcessor.calculate_price_per_km",
                    value |-> data_processor_calculate_price_per_km(call.fee, call.distance)]
    /\ CallUnchanged

EnhancedCalculatePricePerKm ==
    /\ returned = NotReturned
    /\ returned' = [fn |-> "EnhancedDataProcessor.calculate_price_per_km",
                    value |-> calculate_price_per_km(call.fee, call.distance)]
    /\ CallUnchanged

NextPrice ==
    \/ CalculatePricePerKm
    \/ EnhancedCalculatePricePerKm

SpecPrice == InitPrice /\ [][NextPrice]_vars

\* ------------------------------------------- one completion, inferred and merged
CITY_RUN == <<"c", "i", "t", "y", " ", "r", "u", "n">>
CITY_HALF == <<"c", "i", "t", "y", " ", "H", "a", "l", "f">>
CompletionEventNames == {CITY_RUN, CITY_HALF}

\* structured_data as the extractor hands it over
StructuredCats ==
    {Category(HALF_MARATHON, distance, fee, total_quota) :
        distance \in {"", "21.0975km"}, fee \in {NULL, 100}, total_quota \in {NULL, 500}}

StructuredData ==
    {Data(total_scale, categories) :
        total_scale \in {NULL, 1000},
        categories \in {<< >>} \cup {<<c>> : c \in StructuredCats}}

\* validated_data as validate_and_merge returns it: every category has passed
\* _is_valid_category, so it has a name and a distance
ValidatedCats ==
    {Category(name, distance, fee, total_quota) :
        name \in {HALF_MARATHON, BANMA}, distance \in {"21km", "21.0975km"},
        fee \in {NULL, 100}, total_quota \in {NULL, 500, 800}}

ValidatedData ==
    {EmptyData} \cup
    {Data(total_scale, categories) :
        total_scale \in {NULL, 3000},
        categories \in {<< >>} \cup {<<c>> : c \in ValidatedCats}}

InitCompletion ==
    /\ CallIdle
    /\ PoolIdle
    /\ call \in [fn : {"complete_event_data"}, event_name : CompletionEventNames,
                 structured_data : StructuredData, validated_data : ValidatedData]
    /\ returned = NotReturned

\* steps 1, 4 and 5 of complete_event_data
CompleteEventData ==
    /\ returned = NotReturned
    /\ LET final_data == intelligent_inference(call.validated_data, call.event_name)
       IN returned' =
             IF ~has_missing(call.structured_data)
             THEN [fn |-> "complete_event_data", completed |-> FALSE,
                   final_data |-> EmptyData, value |-> call.structured_data]
             ELSE [fn |-> "complete_event_data", completed |-> TRUE,
                   final_data |-> final_data,
                   value |-> merge_completed_data(call.structured_data, final_data)]
    /\ CallUnchanged

NextCompletion == CompleteEventData

SpecCompletion == InitCompletion /\ [][NextCompletion]_vars

\* ------------------------------------------------------- the worker pool
MaxPages == 2        \* list pages of one crawl
MaxPageEvents == 2   \* events on one list page
max_workers == 40

PoolEventIds == {"e1", "e2"}

\* what parse_event_list returns for each list page, in page order
ListPages == SeqsUpTo(SeqsUpTo(PoolEventIds, MaxPageEvents), MaxPages)

\* crawl_all_events without a date filter: the events of every page are
\* appended to all_events; the first page without events ends the crawl
RECURSIVE crawl_all_events(_)
crawl_all_events(list_pages) ==
    IF list_pages = << >> THEN << >>
    ELSE IF Head(list_pages) = << >> THEN << >>
    ELSE Head(list_pages) \o crawl_all_events(Tail(list_pages))

Running == {i \in 1..Len(future_to_event) : future_to_event[i] = "running"}

InitPool ==
    /\ CallIdle
    /\ call \in [fn : {"run"}, list_pages : ListPages]
    /\ returned = NotReturned
    /\ PoolIdle

PoolUnchanged ==
    UNCHANGED <<race_events, race_categories, next_category_id, last, held, steps,
                source_results, multi_source_data, validated, call>>

\* run, phase 1 and the submit of phase 2: one task per entry of the list
SubmitAll ==
    /\ returned = NotReturned
    /\ all_events = << >>
    /\ crawl_all_events(call.list_pages) # << >>
    /\ all_events' = crawl_all_events(call.list_pages)
    /\ future_to_event' = [i \in 1..Len(all_events') |-> "pending"]
    /\ UNCHANGED returned
    /\ PoolUnchanged

\* a free worker of the ThreadPoolExecutor takes the oldest pending task and
\* enters process_event
StartProcessEvent(i) ==
    /\ future_to_event[i] = "pending"
    /\ \A j \in 1..(i - 1) : future_to_event[j] # "pending"
    /\ Cardinality(Running) < max_workers
    /\ future_to_event' = [future_to_event EXCEPT ![i] = "running"]
    /\ UNCHANGED <<all_events, returned>>
    /\ PoolUnchanged

\* process_event returns
FinishProcessEvent(i) ==
    /\ future_to_event[i] = "running"
    /\ future_to_event' = [future_to_event EXCEPT ![i] = "done"]
    /\ UNCHANGED <<all_events, returned>>
    /\ PoolUnchanged

\* run returns: no events, or every future completed
RunReturns ==
    /\ returned = NotReturned
    /\ \/ crawl_all_events(call.list_pages) = << >>
       \/ all_events # << >> /\ \A i \in 1..Len(future_to_event) : future_to_event[i] = "done"
    /\ returned' = [fn |-> "run", value |-> Len(all_events)]
    /\ UNCHANGED <<all_events, future_to_event>>
    /\ PoolUnchanged

NextPool ==
    \/ SubmitAll
    \/ \E i \in 1..Len(future_to_event) : StartProcessEvent(i)
    \/ \E i \in 1..Len(future_to_event) : FinishProcessEvent(i)
    \/ RunReturns

SpecPool == InitPool /\ [][NextPool]_vars

\* ---------------------------------------------------- registration status
MaxDivs == 2      \* div elements of one detail page
MaxButtons == 2   \* a elements inside one div

BAOMINGZHONG == "baomingzhong"
YIJIEZHI == "yijiezhi"
YIJIESHU == "yijieshu"
NoStatus == "None"
\* a detail page: the empty string, or markup holding some div elements
EmptyHtml == [empty |-> TRUE, divs |-> << >>]

YIJIANBAOMING == <<"yi", "jian", "bao", "ming">>
BAOMING == <<"bao", "ming">>
YIJIEZHI_TEXT == <<"yi", "jie", "zhi">>
JIEZHI == <<"jie", "zhi">>

\* the text nodes an a element can hold
ButtonTexts ==
    { YIJIANBAOMING,
      <<" ">> \o YIJIEZHI_TEXT \o <<" ">>,
      BAOMING \o YIJIEZHI_TEXT,
      <<"xiang", "qing">>,
      << >> }

\* a elements: reg_btn tells whether the element has class reg-btn
Buttons ==
    [reg_btn : {TRUE}, text : ButtonTexts]
        \cup [reg_btn : {FALSE}, text : {YIJIANBAOMING}]

\* div elements: pkg2 tells whether the element has class pkg2
Divs == [pkg2 : BOOLEAN, buttons : SeqsUpTo(Buttons, MaxButtons)]

DetailHtmls == {EmptyHtml} \cup [empty : {FALSE}, divs : SeqsUpTo(Divs, MaxDivs)]

\* soup.find_all('div', class_='pkg2')
RECURSIVE find_all_pkg2(_)
find_all_pkg2(html) ==
    IF html = << >> THEN << >>
    ELSE IF Head(html).pkg2 THEN <<Head(html)>> \o find_all_pkg2(Tail(html))
    ELSE find_all_pkg2(Tail(html))

\* pkg.find_all('a', class_='reg-btn')
RECURSIVE find_all_reg_btn(_)
find_all_reg_btn(buttons) ==
    IF buttons = << >> THEN << >>
    ELSE IF Head(buttons).reg_btn
         THEN <<Head(buttons)>> \o find_all_reg_btn(Tail(buttons))
    ELSE find_all_reg_btn(Tail(buttons))

\* button.get_text(strip=True)
get_text_strip(button) == Strip(button.text)

\* the two flags after the buttons of one pkg2 div
RECURSIVE ScanButtons(_, _)
ScanButtons(buttons, flags) ==
    IF buttons = << >> THEN flags
    ELSE LET button_text == get_text_strip(Head(buttons))
         IN ScanButtons(Tail(buttons),
                IF IsIn(YIJIANBAOMING, button_text) \/ IsIn(BAOMING, button_text)
                    THEN [flags EXCEPT !.has_register = TRUE]
                ELSE IF IsIn(YIJIEZHI_TEXT, button_text) \/ IsIn(JIEZHI, button_text)
                    THEN [flags EXCEPT !.has_closed = TRUE]
                ELSE flags)

RECURSIVE ScanPkgs(_, _)
ScanPkgs(category_divs, flags) ==
    IF category_divs = << >> THEN flags
    ELSE ScanPkgs(Tail(category_divs),
                  ScanButtons(find_all_reg_btn(Head(category_divs).buttons), flags))

\* the closing if/elif/else of extract_event_status_from_categories, with the
\* closed branch tested first
StatusOfFlagsClosedFirst(flags) ==
    IF flags.has_closed THEN YIJIEZHI
    ELSE IF flags.has_register THEN BAOMINGZHONG
    ELSE YIJIESHU

\* the closing if/elif/else of extract_event_status_from_categories
StatusOfFlags(flags) ==
    IF flags.has_register THEN BAOMINGZHONG
    ELSE IF flags.has_closed THEN YIJIEZHI
    ELSE YIJIESHU

\* EventStatusExtractor.extract_event_status_from_categories
extract_event_status_from_categories(detail_html) ==
    IF detail_html = EmptyHtml THEN YIJIESHU
    ELSE LET category_divs == find_all_pkg2(detail_html.divs)
         IN IF category_divs = << >> THEN YIJIESHU
            ELSE StatusOfFlags(ScanPkgs(category_divs,
                     [has_register |-> FALSE, has_closed |-> FALSE]))

\* the loop of extract_category_info: every matching button overwrites the
\* status found so far
RECURSIVE CategoryStatus(_, _)
CategoryStatus(buttons, status) ==
    IF buttons = << >> THEN status
    ELSE LET button_text == get_text_strip(Head(buttons))
         IN CategoryStatus(Tail(buttons),
                IF IsIn(YIJIANBAOMING, button_text) \/ IsIn(BAOMING, button_text)
                    THEN BAOMINGZHONG
                ELSE IF IsIn(YIJIEZHI_TEXT, button_text) \/ IsIn(JIEZHI, button_text)
                    THEN YIJIEZHI
                ELSE status)

\* EventStatusExtractor.extract_category_info
extract_category_info(category_html) ==
    [registration_status |->
        CategoryStatus(find_all_reg_btn(category_html.buttons), NoStatus)]

\* EventStatusExtractor.parse_all_categories_status
parse_all_categories_status(detail_html) ==
    IF detail_html = EmptyHtml
    THEN [event_status |-> YIJIESHU, categories_info |-> << >>]
    ELSE LET category_divs == find_all_pkg2(detail_html.divs)
         IN [event_status |-> extract_event_status_from_categories(detail_html),
             categories_info |->
                 [i \in 1..Len(category_divs) |->
                     [html |-> category_divs[i],
                      registration_status |->
                          extract_category_info(category_divs[i]).registration_status]]]

InitStatus ==
    /\ CallIdle
    /\ PoolIdle
    /\ call \in [fn : {"status"}, detail_html : DetailHtmls]
    /\ returned = NotReturned

ExtractEventStatusFromCategories ==
    /\ returned = NotReturned
    /\ returned' = [fn |-> "extract_event_status_from_categories",
                    value |-> extract_event_status_from_categories(call.detail_html)]
    /\ CallUnchanged

ParseAllCategoriesStatus ==
    /\ returned = NotReturned
    /\ returned' = [fn |-> "parse_all_categories_status",
                    value |-> parse_all_categories_status(call.detail_html)]
    /\ CallUnchanged

NextStatus ==
    \/ ExtractEventStatusFromCategories
    \/ ParseAllCategoriesStatus

SpecStatus == InitStatus /\ [][NextStatus]_vars

\* ------------------------------------------------------------ event levels
\* EventLevelStandardizer.STANDARD_LEVELS, in the order of the dict; a text
\* is the sequence of its characters, a Chinese character written as its
\* pinyin syllable with its tone
STANDARD_LEVELS == <<
    [ code |-> "WORLD_PLATINUM",
      standard |-> <<"shi4", "jie4", "tian2", "jing4", "bai2", "jin1", "biao1", "sai4", "shi4b">>,
      aliases |-> <<
          <<"shi4", "jie4", "tian2", "lian2", "bai2", "jin1", "biao1">>,
          <<"bai2", "jin1", "biao1">>,
          <<"w", "o", "r", "l", "d", " ", "a", "t", "h", "l", "e", "t", "i", "c", "s", " ", "p", "l", "a", "t", "i", "n", "u", "m", " ", "l", "a", "b", "e", "l">>,
          <<"p", "l", "a", "t", "i", "n", "u", "m", " ", "l", "a", "b", "e", "l">>,
          <<"shi4", "jie4", "tian2", "jing4", "bai2", "jin1">>,
          <<"w", "a", "bai2", "jin1", "biao1">> >>,
      priority |-> 200 ],
    [ code |-> "WORLD_GOLD",
      standard |-> <<"shi4", "jie4", "tian2", "jing4", "jin1", "biao1", "sai4", "shi4b">>,
      aliases |-> <<
          <<"shi4", "jie4", "tian2", "lian2", "jin1", "biao1">>,
          <<"jin1", "biao1">>,
          <<"w", "o", "r", "l", "d", " ", "a", "t", "h", "l", "e", "t", "i", "c", "s", " ", "g", "o", "l", "d", " ", "l", "a", "b", "e", "l">>,
          <<"g", "o", "l", "d", " ", "l", "a", "b", "e", "l">>,
          <<"guo2", "ji4", "jin1", "biao1">>,
          <<"shi4", "jie4", "tian2", "jing4", "jin1", "biao1">>,
          <<"w", "a", "jin1", "biao1">> >>,
      priority |-> 190 ],
    [ code |-> "WORLD_SILVER",
      standard |-> <<"shi4", "jie4", "tian2", "jing4", "yin2", "biao1", "sai4", "shi4b">>,
      aliases |-> <<
          <<"shi4", "jie4", "tian2", "lian2", "yin2", "biao1">>,
          <<"yin2", "biao1">>,
          <<"w", "o", "r", "l", "d", " ", "a", "t", "h", "l", "e", "t", "i", "c", "s", " ", "s", "i", "l", "v", "e", "r", " ", "l", "a", "b", "e", "l">>,
          <<"s", "i", "l", "v", "e", "r", " ", "l", "a", "b", "e", "l">>,
          <<"guo2", "ji4", "yin2", "biao1">>,
          <<"shi4", "jie4", "tian2", "jing4", "yin2", "biao1">>,
          <<"w", "a", "yin2", "biao1">> >>,
      priority |-> 180 ],
    [ code |-> "WORLD_BRONZE",
      standard |-> <<"shi4", "jie4", "tian2", "jing4", "tong2", "biao1", "sai4", "shi4b">>,
      aliases |-> <<
          <<"shi4", "jie4", "tian2", "lian2", "tong2", "biao1">>,
          <<"tong2", "biao1">>,
          <<"w", "o", "r", "l", "d", " ", "a", "t", "h", "l", "e", "t", "i", "c", "s", " ", "b", "r", "o", "n", "z", "e", " ", "l", "a", "b", "e", "l">>,
          <<"b", "r", "o", "n", "z", "e", " ", "l", "a", "b", "e", "l">>,
          <<"guo2", "ji4", "tong2", "biao1">>,
          <<"shi4", "jie4", "tian2", "jing4", "tong2", "biao1">>,
          <<"w", "a", "tong2", "biao1">> >>,
      priority |-> 170 ],
    [ code |-> "UTMB",
      standard |-> <<"U", "T", "M", "B", "ren4", "zheng4">>,
      aliases |-> <<
          <<"u", "t", "m", "b">>,
          <<"u", "t", "m", "b", "ren4", "zheng4", "sai4", "shi4b">>,
          <<"u", "t", "m", "b", "xi4", "lie4", "sai4">>,
          <<"u", "t", "m", "b", "ji1", "fen1", "sai4">>,
          <<"u", "t", "m", "b", "ren4", "zheng4">>,
          <<"u", "t", "m", "b", " ", "b", "y", " ", "u", "t", "m", "b">> >>,
      priority |-> 160 ],
    [ code |-> "ITRA",
      standard |-> <<"I", "T", "R", "A", "ren4", "zheng4">>,
      aliases |-> <<
          <<"i", "t", "r", "a">>,
          <<"i", "t", "r", "a", "ren4", "zheng4", "sai4", "shi4b">>,
          <<"i", "t", "r", "a", "ren4", "zheng4">>,
          <<"i", "t", "r", "a", "ji1", "fen1", "sai4">>,
          <<"i", "t", "r", "a", " ", "p", "o", "i", "n", "t", "s">> >>,
      priority |-> 150 ],
    [ code |-> "A1",
      standard |-> <<"A", "(", "A", "1", ")">>,
      aliases |-> <<
          <<"a", "1", "lei4">>,
          <<"a", "1">>,
          <<"a", "1", "lei4", "sai4", "shi4b">>,
          <<"a", "(", "a", "1", ")", "lei4">>,
          <<"a", "(", "a", "1", ")">>,
          <<"a", "1", "ji2">>,
          <<"a", "1", "deng3", "ji2">> >>,
      priority |-> 100 ],
    [ code |-> "A2",
      standard |-> <<"A", "(", "A", "2", ")">>,
      aliases |-> <<
          <<"a", "2", "lei4">>,
          <<"a", "2">>,
          <<"a", "2", "lei4", "sai4", "shi4b">>,
          <<"a", "(", "a", "2", ")", "lei4">>,
          <<"a", "(", "a", "2", ")">>,
          <<"a", "2", "ji2">>,
          <<"a", "2", "deng3", "ji2">> >>,
      priority |-> 95 ],
    [ code |-> "A",
      standard |-> <<"A", "lei4">>,
      aliases |-> <<
          <<"a", "lei4">>,
          <<"a", "lei4", "sai4", "shi4b">>,
          <<"a", "ji2">>,
          <<"a", "deng3", "ji2">>,
          <<"a", "lei4", "ren4", "zheng4">> >>,
      priority |-> 90 ],
    [ code |-> "B",
      standard |-> <<"B", "lei4">>,
      aliases |-> <<
          <<"b", "lei4">>,
          <<"b", "lei4", "sai4", "shi4b">>,
          <<"b", "ji2">>,
          <<"b", "deng3", "ji2">>,
          <<"b", "lei4", "ren4", "zheng4">> >>,
      priority |-> 80 ],
    [ code |-> "C",
      standard |-> <<"C", "lei4", "(", "shu3", "di4", "ban4", "sai4", ")">>,
      aliases |-> <<
          <<"c", "lei4">>,
          <<"c", "lei4", "sai4", "shi4b">>,
          <<"shu3", "di4", "ban4", "sai4">>,
          <<"c", "ji2">>,
          <<"c", "deng3", "ji2">>,
          <<"c", "lei4", "ren4", "zheng4">>,
          <<"shu3", "di4", "sai4">> >>,
      priority |-> 70 ],
    [ code |-> "CAA",
      standard |-> <<"zhong1", "guo2", "tian2", "jing4", "xie2", "hui4", "ren4", "zheng4">>,
      aliases |-> <<
          <<"zhong1", "guo2", "tian2", "jing4", "xie2", "hui4">>,
          <<"tian2", "xie2", "ren4", "zheng4">>,
          <<"zhong1", "tian2", "xie2">>,
          <<"c", "a", "a", "ren4", "zheng4">>,
          <<"zhong1", "guo2", "tian2", "xie2", "ren4", "zheng4">> >>,
      priority |-> 60 ],
    [ code |-> "AIMS",
      standard |-> <<"A", "I", "M", "S", "ren4", "zheng4">>,
      aliases |-> <<
          <<"a", "i", "m", "s">>,
          <<"a", "i", "m", "s", "ren4", "zheng4">>,
          <<"a", "i", "m", "s", "hui4", "yuan2", "sai4", "shi4b">> >>,
      priority |-> 85 ],
    [ code |-> "OTHER",
      standard |-> <<"qi2", "ta1">>,
      aliases |-> << >>,
      priority |-> 0 ] >>

QITA == <<"qi2", "ta1">>
NULL_TEXT == <<"n", "u", "l", "l">>
NONE_TEXT == <<"N", "o", "n", "e">>

\* texts no alias list holds, and aliases in other spellings
OtherLevelTexts == {
    <<"wei4", "zhi1", "ji2", "bie2">>,
    <<"x", "y", "z">>,
    <<" ", "jin1", "biao1", " ">>,
    <<"G", "O", "L", "D", " ", "L", "A", "B", "E", "L">>,
    <<"A", "1", "lei4">>,
    <<"n", "u", "l", "l">>,
    <<"N", "o", "n", "e">>,
    << >>,
    <<" ">>,
    <<"a">>,
    <<"ren4", "zheng4">> }

AliasesOf(i) == { STANDARD_LEVELS[i].aliases[j] : j \in 1..Len(STANDARD_LEVELS[i].aliases) }

LevelTexts ==
    OtherLevelTexts
      \cup { STANDARD_LEVELS[i].standard : i \in 1..Len(STANDARD_LEVELS) }
      \cup UNION { AliasesOf(i) : i \in 1..Len(STANDARD_LEVELS) }

NoMatch == [best_match |-> << >>, best_priority |-> -1]

\* for alias in level_info['aliases']: whether the loop reaches an alias that
\* matches; an exact match ends the loop, a containment either way does not
RECURSIVE MatchAliases(_, _)
MatchAliases(aliases, raw_level_clean) ==
    IF aliases = << >> THEN FALSE
    ELSE LET alias_lower == Lower(Head(aliases))
         IN IF raw_level_clean = alias_lower THEN TRUE
            ELSE IF IsIn(alias_lower, raw_level_clean) \/ IsIn(raw_level_clean, alias_lower)
                 THEN TRUE
            ELSE MatchAliases(Tail(aliases), raw_level_clean)

\* best_match and best_priority after the aliases of one level: every match
\* inside the level assigns the same pair, when the level's priority is higher
Better(level_info, raw_level_clean, best) ==
    IF MatchAliases(level_info.aliases, raw_level_clean)
         /\ level_info.priority > best.best_priority
    THEN [best_match |-> level_info.standard, best_priority |-> level_info.priority]
    ELSE best

\* for level_code, level_info in STANDARD_LEVELS.items(), and what follows it
RECURSIVE MatchLevels(_, _, _, _)
MatchLevels(levels, raw_level, raw_level_clean, best) ==
    IF levels = << >>
    THEN IF best.best_match # << >> THEN best.best_match ELSE raw_level
    ELSE IF raw_level_clean = Lower(Head(levels).standard) THEN Head(levels).standard
    ELSE MatchLevels(Tail(levels), raw_level, raw_level_clean,
                     Better(Head(levels), raw_level_clean, best))

\* EventLevelStandardizer.standardize
standardize(raw_level) ==
    IF raw_level = << >> \/ Strip(raw_level) \in {NULL_TEXT, NONE_TEXT, << >>}
    THEN QITA
    ELSE MatchLevels(STANDARD_LEVELS, raw_level, Lower(Strip(raw_level)), NoMatch)

InitLevel ==
    /\ CallIdle
    /\ PoolIdle
    /\ call \in [fn : {"standardize"}, raw_level : LevelTexts]
    /\ returned = NotReturned

Standardize ==
    /\ returned = NotReturned
    /\ returned' = [fn |-> "standardize", value |-> standardize(call.raw_level)]
    /\ CallUnchanged

NextLevel == Standardize

SpecLevel == InitLevel /\ [][NextLevel]_vars

\* ---------------------------------------------------- trail distance groups
\* TrailDistanceClassifier.DISTANCE_GROUPS, min and max in 1/10000 km
DISTANCE_GROUPS == <<
    [name |-> "10 gongli yixia",    min |-> 0,       max |-> 99990],
    [name |-> "10-19 gongli",       min |-> 100000,  max |-> 199990],
    [name |-> "20-30 gongli",       min |-> 200000,  max |-> 300000],
    [name |-> "31-40 gongli",       min |-> 310000,  max |-> 400000],
    [name |-> "41-50 gongli",       min |-> 410000,  max |-> 500000],
    [name |-> "51-60 gongli",       min |-> 510000,  max |-> 600000],
    [name |-> "61-70 gongli",       min |-> 610000,  max |-> 700000],
    [name |-> "71-80 gongli",       min |-> 710000,  max |-> 800000],
    [name |-> "81-90 gongli",       min |-> 810000,  max |-> 900000],
    [name |-> "91-99 gongli",       min |-> 910000,  max |-> 999990],
    [name |-> "100 gongli",         min |-> 1000000, max |-> 1000000],
    [name |-> "100 gongli yishang", min |-> 1000010, max |-> 99990000] >>

OVER_100 == "100 gongli yishang"
NoGroup == "None"

TRAIL_EVENT_TYPES == {
    <<"yue", "ye", "sai">>,
    <<"shan", "di", "ma", "la", "song">>,
    <<"yue", "ye", "pao">>,
    <<"shan", "di", "yue", "ye">>,
    <<"t", "r", "a", "i", "l">> }

\* event_type arguments: None, the empty string, trail types and others
NoType == <<"None">>
TrailEventTypes ==
    TRAIL_EVENT_TYPES \cup
    { NoType, << >>,
      <<"T", "R", "A", "I", "L">>,
      <<"ma", "la", "song">>,
      <<"gao", "shan", "yue", "ye", "sai">> }

\* distance_km arguments in 1/10000 km; NULL is None
TrailDistances ==
    { NULL, 0, -50000, 55000, 99990, 99995, 100000, 150000, 199995, 200000,
      300000, 305000, 310000, 405000, 421950, 500000, 550000, 905000,
      999990, 999995, 1000000, 1000005, 1000010, 1680000, 99990000, 100000000 }

\* for group in DISTANCE_GROUPS, and the return after the loop
RECURSIVE FindGroup(_, _)
FindGroup(groups, distance_km) ==
    IF groups = << >> THEN OVER_100
    ELSE IF Head(groups).min <= distance_km /\ distance_km <= Head(groups).max
         THEN Head(groups).name
    ELSE FindGroup(Tail(groups), distance_km)

\* TrailDistanceClassifier.classify_distance
classify_distance(distance_km, event_type) ==
    IF /\ event_type # NoType
       /\ event_type # << >>
       /\ ~(\E trail_type \in TRAIL_EVENT_TYPES : IsIn(Lower(trail_type), Lower(event_type)))
    THEN NoGroup
    ELSE IF distance_km = NULL \/ distance_km = 0 \/ distance_km <= 0 THEN NoGroup
    ELSE FindGroup(DISTANCE_GROUPS, distance_km)

InitTrail ==
    /\ CallIdle
    /\ PoolIdle
    /\ call \in [fn : {"classify_distance"}, distance_km : TrailDistances,
                 event_type : TrailEventTypes]
    /\ returned = NotReturned

ClassifyDistance ==
    /\ returned = NotReturned
    /\ returned' = [fn |-> "classify_distance",
                    value |-> classify_distance(call.distance_km, call.event_type)]
    /\ CallUnchanged

NextTrail == ClassifyDistance

SpecTrail == InitTrail /\ [][NextTrail]_vars

\* ------------------------------------------- a pass over same-named variants
\* candidate records that list two categories
TwoCategoryData ==
    [event_id : EventIds, name : {"crawled"},
     race_categories : {<<a, b>> : a \in CrawlerCats, b \in CrawlerCats}]

\* the rows SELECT * FROM race_categories WHERE race_event_id=%s AND name=%s
\* yields
MatchingRows(cats, race_event_id, cat_name) ==
    {i \in 1..Len(cats) :
        cats[i].race_event_id = race_event_id /\ cats[i].name = cat_name}

\* the for loop of smart_sync_to_mysql over crawler_categories, cursor.fetchone()
\* taking whichever matching row the server yields first: the statement has no
\* ORDER BY, so the order of its rows is the server's choice. The result is
\* the set of outcomes, each with the ids of the rows it updated (0 for an
\* insert).
RECURSIVE SyncCategoriesAnyRow(_, _, _, _)
SyncCategoriesAnyRow(cats, nid, race_event_id, crawler_categories) ==
    IF crawler_categories = << >>
    THEN {[cats |-> cats, nid |-> nid, updated |-> << >>]}
    ELSE LET crawler_cat == Head(crawler_categories)
             hits == MatchingRows(cats, race_event_id, crawler_cat.name)
         IN IF hits = {}
            THEN {[r EXCEPT !.updated = <<0>> \o @] :
                    r \in SyncCategoriesAnyRow(
                             Append(cats, sync_insert_race_category(nid, race_event_id,
                                                                    crawler_cat)),
                             nid + 1, race_event_id, Tail(crawler_categories))}
            ELSE UNION {
                    {[r EXCEPT !.updated = <<cats[i].id>> \o @] :
                        r \in SyncCategoriesAnyRow(
                                 [cats EXCEPT ![i] =
                                     update_race_category_protected(cats[i], crawler_cat)],
                                 nid, race_event_id, Tail(crawler_categories))}
                    : i \in hits}

\* the store after Database.save_race_event created an event from a candidate
\* record with two categories, and a candidate record for the next pass
InitAmbiguous ==
    /\ \E event_data \in TwoCategoryData :
          LET r == create_event(<< >>, << >>, 1, process_event_data(event_data))
          IN /\ race_events = r.events
             /\ race_categories = r.cats
             /\ next_category_id = r.nid
    /\ last = [op |-> "save", ok |-> TRUE, event_id |-> "e1", names |-> {},
               first_id |-> 1, first_changed |-> FALSE]
    /\ held = NoData
    /\ steps = 0
    /\ source_results = << >>
    /\ multi_source_data = << >>
    /\ validated = NotValidated
    /\ PoolIdle
    /\ call \in [fn : {"smart_sync_to_mysql"}, crawler_data : CrawlerData]
    /\ returned = NotReturned

\* smart_sync_to_mysql, the database reachable
SmartSyncAnyRow ==
    /\ returned = NotReturned
    /\ LET final_data == process_event_data(call.crawler_data)
           race_event_record == SelectEvent(race_events, final_data.event_id)
       IN IF race_event_record = NoRecord
          THEN /\ returned' = [fn |-> "smart_sync_to_mysql", ok |-> FALSE,
                               updated |-> << >>]
               /\ UNCHANGED storeVars
          ELSE \E done \in SyncCategoriesAnyRow(race_categories, next_category_id,
                                                race_event_record.id,
                                                final_data.race_categories) :
                  /\ race_events' = [race_events EXCEPT ![race_event_record.id] =
                                        update_race_event_protected(race_event_record,
                                                                    final_data)]
                  /\ race_categories' = done.cats
                  /\ next_category_id' = done.nid
                  /\ returned' = [fn |-> "smart_sync_to_mysql", ok |-> TRUE,
                                  updated |-> done.updated]
                  /\ UNCHANGED <<last, held, steps>>
    /\ UNCHANGED resolverVars
    /\ UNCHANGED poolVars
    /\ UNCHANGED call

NextAmbiguous == SmartSyncAnyRow

SpecAmbiguous == InitAmbiguous /\ [][NextAmbiguous]_vars

\* --------------------------------------- a pass and a manual import, interleaved
\* One UPDATE of a _update_*_protected method: the SET list comes from the
\* db_record the method was given, the statement changes the row as it is now
UpdateWithFields(row, db_record, mapping, crawler) ==
    LET update_fields == ProtectedUpdateFields(mapping, db_record, crawler)
    IN [f \in DOMAIN row |-> IF f \in update_fields THEN crawler[f] ELSE row[f]]

\* the store after Database.save_race_event created an event; no pass running
InitRace ==
    /\ \E event_data \in CrawlerData :
          LET r == create_event(<< >>, << >>, 1, process_event_data(event_data))
          IN /\ race_events = r.events
             /\ race_categories = r.cats
             /\ next_category_id = r.nid
    /\ last = [op |-> "save", ok |-> TRUE, event_id |-> "e1", names |-> {},
               first_id |-> 1, first_changed |-> FALSE]
    /\ held = NoData
    /\ steps = 0
    /\ source_results = << >>
    /\ multi_source_data = << >>
    /\ validated = NotValidated
    /\ PoolIdle
    /\ call = NoCall
    /\ returned = NotReturned

RaceUnchanged == UNCHANGED <<steps, source_results, multi_source_data, validated,
                             call, all_events, future_to_event>>

\* smart_sync_to_mysql up to race_event_record = cursor.fetchone()
SyncSelectEvent(event_data) ==
    /\ held = NoData
    /\ last.op # "sync"
    /\ SelectEvent(race_events, event_data.event_id) # NoRecord
    /\ held' = [data |-> process_event_data(event_data),
                pc |-> "event_read",
                event_record |-> SelectEvent(race_events, event_data.event_id),
                wrote_event |-> FALSE,
                k |-> 0,
                category_record |-> NoRecord]
    /\ UNCHANGED <<race_events, race_categories, next_category_id, last, returned>>
    /\ RaceUnchanged

\* _update_race_event_protected with the record read before
SyncUpdateEvent ==
    /\ held # NoData
    /\ held.pc = "event_read"
    /\ race_events' =
          [i \in 1..Len(race_events) |->
              IF race_events[i].id = held.event_record.id
              THEN UpdateWithFields(race_events[i], held.event_record,
                                    EventFieldMapping, held.data)
              ELSE race_events[i]]
    /\ held' = [held EXCEPT
                  !.pc = "event_written",
                  !.wrote_event = ProtectedUpdateFields(EventFieldMapping,
                                      held.event_record, held.data) # {}]
    /\ UNCHANGED <<race_categories, next_category_id, last, returned>>
    /\ RaceUnchanged

\* the SELECT for the next crawler category and category_record = cursor.fetchone()
SyncSelectCategory ==
    /\ held # NoData
    /\ held.pc \in {"event_written", "category_written"}
    /\ held.k < Len(held.data.race_categories)
    /\ LET crawler_cat == held.data.race_categories[held.k + 1]
           i == FindCategory(race_categories, held.event_record.id, crawler_cat.name)
       IN held' = [held EXCEPT
                     !.pc = "category_read",
                     !.k = @ + 1,
                     !.category_record = IF i = 0 THEN NoRecord ELSE race_categories[i]]
    /\ UNCHANGED <<race_events, race_categories, next_category_id, last, returned>>
    /\ RaceUnchanged

\* _update_race_category_protected with the record read before, or
\* _insert_race_category
SyncWriteCategory ==
    /\ held # NoData
    /\ held.pc = "category_read"
    /\ LET crawler_cat == held.data.race_categories[held.k]
       IN IF held.category_record # NoRecord
          THEN /\ race_categories' =
                     [i \in 1..Len(race_categories) |->
                         IF race_categories[i].id = held.category_record.id
                         THEN UpdateWithFields(race_categories[i], held.category_record,
                                               CategoryFieldMapping, crawler_cat)
                         ELSE race_categories[i]]
               /\ UNCHANGED next_category_id
          ELSE /\ race_categories' =
                     Append(race_categories,
                            sync_insert_race_category(next_category_id,
                                                      held.event_record.id, crawler_cat))
               /\ next_category_id' = next_category_id + 1
    /\ held' = [held EXCEPT !.pc = "category_written"]
    /\ UNCHANGED <<race_events, last, returned>>
    /\ RaceUnchanged

\* conn.commit() after the last category
SyncCommit ==
    /\ held # NoData
    /\ held.pc \in {"event_written", "category_written"}
    /\ held.k = Len(held.data.race_categories)
    /\ last' = Record("sync", TRUE, held.data.event_id, CategoryNames(held.data), FALSE)
    /\ held' = NoData
    /\ UNCHANGED <<race_events, race_categories, next_category_id, returned>>
    /\ RaceUnchanged

\* import_manual_edits run to its commit while the pass is between a SELECT
\* and the UPDATE that follows it. The pass holds no row lock then: none
\* before its first UPDATE, and none later if its event UPDATE had no field
\* to set and the import writes no event row.
ManualEditCommits(excel_file, enable_delete) ==
    /\ returned = NotReturned
    /\ held # NoData
    /\ LET r == import_manual_edits(race_events, race_categories, next_category_id,
                                    excel_file, enable_delete)
       IN /\ \/ held.pc = "event_read"
             \/ /\ held.pc = "category_read"
                /\ ~held.wrote_event
                /\ r.events = race_events
          /\ race_events' = r.events
          /\ race_categories' = r.cats
          /\ next_category_id' = r.nid
          /\ returned' = [fn |-> "import_manual_edits", window |-> held.pc,
                          read_id |-> held.category_record.id,
                          events |-> r.events, cats |-> r.cats]
    /\ UNCHANGED <<held, last>>
    /\ RaceUnchanged

NextRace ==
    \/ \E event_data \in CrawlerData : SyncSelectEvent(event_data)
    \/ SyncUpdateEvent
    \/ SyncSelectCategory
    \/ SyncWriteCategory
    \/ SyncCommit
    \/ \E excel_file \in ExcelFiles, enable_delete \in BOOLEAN :
          ManualEditCommits(excel_file, enable_delete)

SpecRace == InitRace /\ [][NextRace]_vars

\* ------------------------------------------- the three layers of completion
max_retries == 3

\* `not v or v == 'null'`, negated: the value counts as filled in
Filled(field, v) ==
    IF field \in {"name"} THEN v # << >>
    ELSE IF field = "distance" THEN v \notin {"", "null"}
    ELSE v \notin {NULL, 0}

EnhancedFields == <<"distance", "fee", "total_quota">>

\* check_missing_fields: missing_fields and, for every incomplete category,
\* its index with each of its missing fields
check_missing_fields(structured_data) ==
    LET categories == structured_data.race_categories
    IN [missing_total_scale |-> ~Filled("total_scale", structured_data.total_scale),
        missing_fields |->
            (IF ~Filled("total_scale", structured_data.total_scale)
             THEN {"total_scale"} ELSE {})
            \cup (IF categories = << >> THEN {"race_categories"} ELSE {}),
        incomplete_categories |->
            {<<idx, f>> \in (1..Len(categories))
                               \X {"name", "distance", "fee", "total_quota"} :
                ~Filled(f, categories[idx][f])}]

enhanced_has_missing(missing_info) ==
    missing_info.missing_fields # {} \/ missing_info.incomplete_categories # {}

\* what a layer returns when the search or the validation fails
NoCompleted == [none |-> TRUE]

Completed(total_scale, categories, source) ==
    [none |-> FALSE, total_scale |-> total_scale, race_categories |-> categories,
     source |-> source, confidence |-> "high"]

\* the dictionaries the model answers with
CompletedCats ==
    {Category(name, distance, fee, total_quota) :
        name \in {NAME_HALF_21, BANMA}, distance \in {"null", "21km"},
        fee \in {NULL, 120}, total_quota \in {NULL, 600}}

CompletedData ==
    {Completed(total_scale, categories, source) :
        total_scale \in {NULL, 2000},
        categories \in {<< >>} \cup {<<c>> : c \in CompletedCats},
        source \in {"", "web"}}

validate_completed_data(completed_data, missing_info) ==
    \/ /\ missing_info.missing_total_scale
       /\ Filled("total_scale", completed_data.total_scale)
    \/ \E i \in 1..Len(completed_data.race_categories) :
          LET cat == completed_data.race_categories[i]
          IN Filled("name", cat.name) /\ Filled("distance", cat.distance)
             /\ Filled("fee", cat.fee)

\* what layer1_ai_search, layer2_baidu_search and layer3_wechat_search can
\* return: None, or a dictionary that passed _validate_completed_data
LayerResults(missing_info) ==
    {NoCompleted} \cup
    {c \in CompletedData : validate_completed_data(c, missing_info)}

\* the first completed category whose name is similar, 0 for none
EnhancedFirstSimilar(orig_cat, completed_categories) ==
    LET hits == {j \in 1..Len(completed_categories) :
                    /\ orig_cat.name # << >>
                    /\ completed_categories[j].name # << >>
                    /\ enhanced_is_similar_category_name(
                          orig_cat.name, completed_categories[j].name)}
    IN IF hits = {} THEN 0 ELSE CHOOSE j \in hits : \A h \in hits : j <= h

\* A completion of one category that takes every value the completion has.
EnhancedFillOverwrites(orig_cat, comp_cat) ==
    [f \in DOMAIN orig_cat |->
        IF f \in {"distance", "fee", "total_quota"} /\ Filled(f, comp_cat[f])
        THEN comp_cat[f] ELSE orig_cat[f]]

\* the loop over 'distance', 'fee' and 'total_quota' for one category
EnhancedFill(orig_cat, comp_cat) ==
    [f \in DOMAIN orig_cat |->
        IF f \in {"distance", "fee", "total_quota"}
           /\ ~Filled(f, orig_cat[f]) /\ Filled(f, comp_cat[f])
        THEN comp_cat[f] ELSE orig_cat[f]]

\* EnhancedDataCompleter.merge_completed_data
enhanced_merge_completed_data(original_data, completed_data) ==
    IF completed_data.none THEN original_data
    ELSE LET original_categories == original_data.race_categories
             completed_categories == completed_data.race_categories
         IN [original_data EXCEPT
                !.total_scale =
                    IF Filled("total_scale", completed_data.total_scale)
                       /\ ~Filled("total_scale", original_data.total_scale)
                    THEN completed_data.total_scale ELSE @,
                !.race_categories =
                    IF completed_categories = << >> THEN @
                    ELSE IF original_categories = << >> THEN completed_categories
                    ELSE [i \in 1..Len(original_categories) |->
                            LET j == EnhancedFirstSimilar(original_categories[i],
                                                          completed_categories)
                            IN IF j = 0 THEN original_categories[i]
                               ELSE EnhancedFill(original_categories[i],
                                                 completed_categories[j])],
                !.completion_source =
                    IF completed_data.source # "" THEN completed_data.source ELSE @,
                !.completion_confidence = completed_data.confidence]

\* structured_data as main hands it over, with no completion recorded yet
EnhancedStructuredData ==
    {[empty |-> FALSE, total_scale |-> d.total_scale,
      total_scale_inferred |-> FALSE, race_categories |-> d.race_categories,
      completion_source |-> "", completion_confidence |-> ""] : d \in StructuredData}

InitLayers ==
    /\ race_events = << >>
    /\ race_categories = << >>
    /\ next_category_id = 1
    /\ last = [op |-> "init", ok |-> TRUE, event_id |-> "", names |-> {},
               first_id |-> 1, first_changed |-> FALSE]
    /\ steps = 0
    /\ source_results = << >>
    /\ multi_source_data = << >>
    /\ validated = NotValidated
    /\ PoolIdle
    /\ call \in [fn : {"EnhancedDataCompleter.complete_event_data"},
                 structured_data : EnhancedStructuredData]
    /\ held = [pc |-> "check", retry |-> 0, structured_data |-> call.structured_data,
               layers |-> << >>]
    /\ returned = NotReturned

LayersUnchanged ==
    UNCHANGED <<race_events, race_categories, next_category_id, last, steps,
                source_results, multi_source_data, validated, call,
                all_events, future_to_event>>

Return(value) == [fn |-> "EnhancedDataCompleter.complete_event_data", value |-> value]

\* the check before the first layer
CheckMissing ==
    /\ held.pc = "check"
    /\ IF enhanced_has_missing(check_missing_fields(held.structured_data))
       THEN held' = [held EXCEPT !.pc = "layer1"] /\ returned' = returned
       ELSE held' = [held EXCEPT !.pc = "done"]
            /\ returned' = Return(held.structured_data)
    /\ LayersUnchanged

\* one layer's search, merge and second check; `after` is where the code
\* goes when the record still has missing fields
LayerStep(layer, after, last_layer) ==
    \E completed_data \in LayerResults(check_missing_fields(held.structured_data)) :
        LET merged_data == enhanced_merge_completed_data(held.structured_data,
                                                        completed_data)
            complete == /\ ~completed_data.none
                        /\ ~enhanced_has_missing(check_missing_fields(merged_data))
        IN /\ held' = [held EXCEPT
                          !.pc = IF complete \/ last_layer THEN "done" ELSE after,
                          !.retry = IF layer = 1 THEN @ + 1 ELSE @,
                          !.structured_data = merged_data,
                          !.layers = Append(@, layer)]
           /\ returned' = IF complete \/ last_layer THEN Return(merged_data)
                          ELSE returned
           /\ LayersUnchanged

\* one turn of `for retry in range(self.max_retries)`
Layer1 ==
    /\ held.pc = "layer1"
    /\ held.retry < max_retries
    /\ LayerStep(1, IF held.retry + 1 < max_retries THEN "layer1" ELSE "layer2", FALSE)

Layer2 ==
    /\ held.pc = "layer2"
    /\ LayerStep(2, "layer3", FALSE)

Layer3 ==
    /\ held.pc = "layer3"
    /\ LayerStep(3, "done", TRUE)

NextLayers ==
    \/ CheckMissing
    \/ Layer1
    \/ Layer2
    \/ Layer3

SpecLayers == InitLayers /\ [][NextLayers]_vars

\* ------------------------------------------------ the date-filtered crawl
STOP_THRESHOLD == 20
MaxListPages == 21   \* list pages get_event_list_urls returns
MaxCalls == 2        \* calls of crawl_all_events on one crawler

\* what one list page gives: no html ("failed"), no event that passes the
\* date filter ("old"), or at least one that does ("valid")
PageOutcomes == {"failed", "old", "valid"}

\* RaceCrawler.__init__ and no call yet; `run` counts the pages without a
\* valid event since the last valid page of the present call
InitCrawl ==
    /\ race_events = << >>
    /\ race_categories = << >>
    /\ next_category_id = 1
    /\ last = [op |-> "init", ok |-> TRUE, event_id |-> "", names |-> {},
               first_id |-> 1, first_changed |-> FALSE]
    /\ steps = 0
    /\ source_results = << >>
    /\ multi_source_data = << >>
    /\ validated = NotValidated
    /\ PoolIdle
    /\ call = [fn |-> "crawl_all_events", min_date |-> "2025-01-01"]
    /\ returned = NotReturned
    /\ held = [_consecutive_old_pages |-> 0, calls |-> 0, in_call |-> FALSE,
               idx |-> 0, run |-> 0, page_valid_pages |-> 0, stopped |-> FALSE]

CrawlUnchanged ==
    UNCHANGED <<race_events, race_categories, next_category_id, last, steps,
                source_results, multi_source_data, validated, call, returned,
                all_events, future_to_event>>

\* crawl_all_events(min_date) up to the loop over list_urls
CrawlStart ==
    /\ ~held.in_call
    /\ held.calls < MaxCalls
    /\ held' = [held EXCEPT !.calls = @ + 1, !.in_call = TRUE, !.idx = 0,
                            !.run = 0, !.page_valid_pages = 0, !.stopped = FALSE]
    /\ CrawlUnchanged

\* one turn of the loop over list_urls
CrawlPage ==
    /\ held.in_call
    /\ held.idx < MaxListPages
    /\ \E outcome \in PageOutcomes :
          LET counted == held._consecutive_old_pages + 1
          IN held' =
                IF outcome = "failed" THEN [held EXCEPT !.idx = @ + 1]
                ELSE IF outcome = "valid"
                THEN [held EXCEPT !.idx = @ + 1, !._consecutive_old_pages = 0,
                                  !.run = 0, !.page_valid_pages = @ + 1]
                ELSE [held EXCEPT !.idx = @ + 1, !._consecutive_old_pages = counted,
                                  !.run = @ + 1,
                                  !.stopped = counted >= STOP_THRESHOLD,
                                  !.in_call = ~(counted >= STOP_THRESHOLD)]
    /\ CrawlUnchanged

\* the loop has used every list url
CrawlEnd ==
    /\ held.in_call
    /\ held.idx = MaxListPages
    /\ held' = [held EXCEPT !.in_call = FALSE]
    /\ CrawlUnchanged

NextCrawl ==
    \/ CrawlStart
    \/ CrawlPage
    \/ CrawlEnd

SpecCrawl == InitCrawl /\ [][NextCrawl]_vars

\* ------------------------------------------------------------ store claims
Rows(cats) == {cats[i] : i \in 1..Len(cats)}
HasId(cats, id) == \E c \in Rows(cats) : c.id = id
RowOf(cats, id) == CHOOSE c \in Rows(cats) : c.id = id
Marked(row) == {row.manually_modified_fields[i] :
                    i \in 1..Len(row.manually_modified_fields)}
CategoryFields == {"name", "distance_numeric", "fee", "price_per_km"}
\* the stored rows of the event with external identifier event_id
RowsOfEvent(events, cats, event_id) ==
    {c \in Rows(cats) : events[c.race_event_id].event_id = event_id}

\* C1: a pass of smart_sync_to_mysql leaves every field that is in an Event's
\* or a Variant's manually_modified_fields when the pass starts at the value
\* it had, whatever the candidate record proposes.
C1_ProtectedFieldsKept ==
    [][last'.op = "sync" =>
        /\ \A i \in 1..Len(race_events) :
              \A f \in Marked(race_events[i]) :
                  /\ i <= Len(race_events')
                  /\ race_events'[i][f] = race_events[i][f]
        /\ \A c \in Rows(race_categories) :
              \A f \in Marked(c) :
                  /\ HasId(race_categories', c.id)
                  /\ RowOf(race_categories', c.id)[f] = c[f]]_vars

\* a pass has just run for a Variant whose fee 999 is protected; the pass
\* proposed fee 50 and distance 21.0975 (the stored unit price is the one the
\* candidate carried), and the fee is still 999.
C1_Witness ==
    /\ last.op = "sync" /\ last.ok
    /\ \E c \in Rows(race_categories) :
          /\ c.name \in last.names
          /\ "fee" \in Marked(c)
          /\ c.fee = 999
          /\ c.distance_numeric = 210975
          /\ c.price_per_km = Round2(50, 210975)

\* C2 (as claimed): when import_manual_edits writes a fee or a distance of a
\* Variant, by updating a row or by inserting one, the field is in the row's
\* manually_modified_fields afterwards, which is what keeps later passes from
\* overwriting it.
C2_ManualWriteIsMarked ==
    [][last'.op = "manual" =>
        \A c \in Rows(race_categories') :
            \A f \in {"fee", "distance_numeric"} :
                (IF HasId(race_categories, c.id)
                 THEN RowOf(race_categories, c.id)[f] # c[f]
                 ELSE c[f] # NULL)
                => f \in Marked(c)]_vars

\* C3: the pass run a second time for the same candidate record, with nothing
\* in between, leaves both tables as the first run left them.
C3_SecondPassChangesNothing ==
    [][last'.op = "resync" => UNCHANGED storeVars]_vars

\* the second pass has run after a first pass that changed the store
C3_Witness ==
    /\ last.op = "resync" /\ last.ok /\ last.first_changed
    /\ last.names # {}

\* C4 (as claimed): every stored Variant with a fee and a distance > 0 has
\* price_per_km = round(fee / distance, 2).
C4_UnitPriceIsRecomputed ==
    \A c \in Rows(race_categories) :
        (c.fee # NULL /\ c.distance_numeric # NULL /\ c.distance_numeric > 0)
        => c.price_per_km = Round2(c.fee, c.distance_numeric)

\* C5 (as claimed): no step takes a field name out of a provenance set: an
\* Event or Variant that holds protections still exists after the step, with
\* at least the same manually_modified_fields.  (A Variant the spreadsheet
\* import deletes under enable_delete is an administrative deletion and is
\* not counted.)
C5_ProvenanceNeverShrinks ==
    [][/\ \A i \in 1..Len(race_events) :
              /\ i <= Len(race_events')
              /\ Marked(race_events[i]) \subseteq Marked(race_events'[i])
       /\ \A c \in Rows(race_categories) :
              \/ Marked(c) = {}
              \/ last'.op = "manual" /\ ~HasId(race_categories', c.id)
              \/ /\ HasId(race_categories', c.id)
                 /\ Marked(c) \subseteq Marked(RowOf(race_categories', c.id))]_vars

\* C6: a pass of smart_sync_to_mysql changes no manually_modified_fields and
\* creates rows with none; a step after which some Event or Variant lists a
\* field it did not list before is a step of import_manual_edits.
C6_PassAddsNoProtection ==
    [][/\ last'.op = "sync" =>
            /\ \A i \in 1..Len(race_events') :
                  race_events'[i].manually_modified_fields =
                      IF i <= Len(race_events)
                      THEN race_events[i].manually_modified_fields ELSE << >>
            /\ \A c \in Rows(race_categories') :
                  c.manually_modified_fields =
                      IF HasId(race_categories, c.id)
                      THEN RowOf(race_categories, c.id).manually_modified_fields
                      ELSE << >>
       /\ (\/ \E i \in 1..Len(race_events') :
                 Marked(race_events'[i]) #
                    (IF i <= Len(race_events) THEN Marked(race_events[i]) ELSE {})
           \/ \E c \in Rows(race_categories') :
                 ~(Marked(c) \subseteq
                    (IF HasId(race_categories, c.id)
                     THEN Marked(RowOf(race_categories, c.id)) ELSE {})))
          => last'.op = "manual"]_vars

\* a pass has just inserted a Variant and updated another that holds
\* protections
C6_Witness ==
    /\ last.op = "sync" /\ last.ok
    /\ \E c \in Rows(race_categories) :
          c.id >= last.first_id /\ c.name \in last.names
    /\ \E i \in 1..Len(race_events) : Marked(race_events[i]) # {}
    /\ \E c \in Rows(race_categories) : c.id < last.first_id /\ Marked(c) # {}

\* C7 (as claimed): a pass for an external identifier with no stored Event
\* row, the database reachable, succeeds and leaves an Event row and a Variant
\* row for every incoming Variant.
C7_FirstSightingCreatesRows ==
    [][(last'.op = "sync" /\ SelectEvent(race_events, last'.event_id) = NoRecord) =>
        /\ last'.ok
        /\ SelectEvent(race_events', last'.event_id) # NoRecord
        /\ \A n \in last'.names :
              \E c \in Rows(race_categories') : c.name = n]_vars

InUnitInterval(confidence) ==
    confidence = Absent
    \/ (confidence.den > 0 /\ 0 <= confidence.num /\ confidence.num <= confidence.den)

\* the source records validate_and_merge was given
SourcesData == collect_from_multiple_sources(source_results, 1)

\* C9 (as claimed): every confidence validate_and_merge returns lies in
\* [0, 1], and a field is resolved unless no candidate survived its filter.
C9_ConfidenceInUnitInterval ==
    (validated # NotValidated /\ ~validated.empty) =>
        /\ InUnitInterval(validated.total_scale_confidence)
        /\ (validated.total_scale = NULL) = (validated.scale_candidates = << >>)
        /\ \A i \in 1..Len(validated.race_categories) :
              InUnitInterval(validated.race_categories[i].fee_confidence)

\* C10 (as claimed): when several fee candidates survive and are not all
\* equal, the fee is their median and the confidence is
\*   (mean of the source weights) * max(0, 1 - mean |f - median| / median).
C10_MedianAndWeightedConfidence ==
    (validated # NotValidated /\ ~validated.empty) =>
        \A i \in 1..Len(validated.race_categories) :
            LET fees == FeeCandidates(SourcesData)
                n == Len(fees)
                median2 == Median2(fees)
                weight_sum ==
                    Sum([k \in 1..Len(SourcesData) |->
                            IF FeeCandidates(<<SourcesData[k]>>) # << >>
                            THEN SourcesData[k].confidence_base ELSE 0])
                consistent == n * median2
                              - Sum([k \in 1..n |-> Abs(2 * fees[k] - median2)])
                got == validated.race_categories[i]
            IN (n >= 2 /\ \E k \in 1..n : fees[k] # fees[1]) =>
                  /\ got.fee.num * 2 = median2 * got.fee.den
                  \* got.fee_confidence = weight_sum / (100 n) * max(0, consistent) / (n median2)
                  /\ got.fee_confidence.num * 100 * n * n * median2
                        = weight_sum * (IF consistent > 0 THEN consistent ELSE 0)
                          * got.fee_confidence.den

\* the source records that still hold a fee after the 0 < fee < 1000 filter
FeeSurvivors == SelectSeq(SourcesData, LAMBDA c : FeeCandidates(<<c>>) # << >>)

\* the confidence a resolved category attaches to its fee: fee_confidence
\* where the merge wrote one, else the confidence of the record itself
FeeConfidenceOf(category) ==
    IF category.fee_confidence # Absent THEN category.fee_confidence
    ELSE category.confidence

RatEqual(a, b) == a.den # 0 /\ b.den # 0 /\ a.num * b.den = b.num * a.den

\* C11 (as claimed): when two or more fee candidates survive and all agree,
\* the resolved fee is their weighted mean (the common value) and its
\* confidence is the mean of the source weights.
C11_AgreementGivesMeanWeight ==
    (validated # NotValidated /\ ~validated.empty) =>
        \A i \in 1..Len(validated.race_categories) :
            LET fees == FeeCandidates(SourcesData)
                n == Len(fees)
                weight_sum == Sum([k \in 1..n |-> FeeSurvivors[k].confidence_base])
                got == validated.race_categories[i]
            IN (n >= 2 /\ \A k \in 1..n : fees[k] = fees[1]) =>
                  /\ RatEqual(got.fee, Rat(fees[1], 1))
                  /\ RatEqual(FeeConfidenceOf(got), Rat(weight_sum, 100 * n))

\* C12 (as claimed): when exactly one fee candidate survives the filter, the
\* resolved fee is that candidate and its confidence is the weight of the
\* source that proposed it.
C12_SingleCandidateGivesItsWeight ==
    (validated # NotValidated /\ ~validated.empty) =>
        \A i \in 1..Len(validated.race_categories) :
            LET got == validated.race_categories[i]
            IN Len(FeeSurvivors) = 1 =>
                  /\ RatEqual(got.fee, Rat(DigitsOf(FeeSurvivors[1].fee), 1))
                  /\ RatEqual(FeeConfidenceOf(got),
                              Rat(FeeSurvivors[1].confidence_base, 100))

\* 0 < fee < 1000, the sanity range of a fee
FeeInRange(fee) == fee.den > 0 /\ 0 < fee.num /\ fee.num < 1000 * fee.den

\* C13 (as claimed): a fee that validate_and_merge resolves lies strictly
\* between 0 and 1000, whatever the number of sources, and a resolved total
\* scale lies in 100..100000.
C13_ResolvedValuesInRange ==
    (validated # NotValidated /\ ~validated.empty) =>
        /\ validated.total_scale # NULL =>
              (100 <= validated.total_scale /\ validated.total_scale <= 100000)
        /\ \A i \in 1..Len(validated.race_categories) :
              validated.race_categories[i].fee # Absent =>
                  FeeInRange(validated.race_categories[i].fee)

\* the first record of the highest weight among the source records
HighestWeight ==
    CHOOSE k \in 1..Len(SourcesData) :
        /\ \A j \in 1..Len(SourcesData) :
              SourcesData[j].confidence_base <= SourcesData[k].confidence_base
        /\ \A j \in 1..Len(SourcesData) :
              j < k => SourcesData[j].confidence_base < SourcesData[k].confidence_base

DistanceConfidenceOf(category) ==
    IF category.distance_confidence # Absent THEN category.distance_confidence
    ELSE category.confidence

\* C14 (as claimed): the resolved distance label is the one proposed by the
\* highest-weight source (the first seen on a tie) and its confidence is that
\* source's weight.
C14_HighestWeightLabelWins ==
    (validated # NotValidated /\ ~validated.empty) =>
        \A i \in 1..Len(validated.race_categories) :
            LET got == validated.race_categories[i]
            IN /\ got.distance = SourcesData[HighestWeight].distance
               /\ RatEqual(DistanceConfidenceOf(got),
                           Rat(SourcesData[HighestWeight].confidence_base, 100))

\* ----------------------------------------------------------- matcher claims
\* C15 (as claimed): every category matcher judges the names HALF_MARATHON
\* and BANMA equivalent, and the names FULL_MARATHON and TEN_KM not equivalent.
C15_MatcherExamples ==
    returned # NotReturned =>
        /\ ({call.name1, call.name2} = {HALF_MARATHON, BANMA} => returned.value)
        /\ ({call.name1, call.name2} = {FULL_MARATHON, TEN_KM} => ~returned.value)

\* ------------------------------------------------------- unit price claims
\* value is fee / distance to the nearest hundredth
NearestHundredth(value, fee, distance) ==
    2 * Abs(value * distance - fee * 1000000) <= distance

\* a unit price is returned exactly when both operands are present and the
\* distance is positive, and it is then fee / distance to 2 decimals
UnitPriceRule ==
    /\ returned.value # NULL <=>
          (Truthy("fee", call.fee) /\ Truthy("distance_numeric", call.distance)
           /\ call.distance > 0)
    /\ returned.value # NULL =>
          NearestHundredth(returned.value, call.fee, call.distance)

\* C16 (as claimed): the unit price is fee / distance rounded to 2 decimals
\* and absent unless both operands are present and distance > 0; fee 120 with
\* distance 42.195 gives 2.84 and with distance 21.0975 gives 5.71.
C16_UnitPriceAsClaimed ==
    returned # NotReturned =>
        /\ UnitPriceRule
        /\ (call.fee = 120 /\ call.distance = 421950 => returned.value = 284)
        /\ (call.fee = 120 /\ call.distance = 210975 => returned.value = 571)

\* C16 (amended): the same rule; fee 120 with distance 42.195 gives 2.84 and
\* with distance 21.0975 gives 5.69, since 120 / 21.0975 = 5.6879...
C16_UnitPrice ==
    returned # NotReturned =>
        /\ UnitPriceRule
        /\ (call.fee = 120 /\ call.distance = 421950 => returned.value = 284)
        /\ (call.fee = 120 /\ call.distance = 210975 => returned.value = 569)

C16_Witness ==
    /\ returned # NotReturned
    /\ call.fee = 120
    /\ call.distance = 210975
    /\ returned.value = 569

\* -------------------------------------------------------- inference claims
\* the category of a sequence that carries the normalised name of category
SameName(categories, category) ==
    {j \in 1..Len(categories) :
        normalize_category_name(categories[j].name)
            = normalize_category_name(category.name)}

\* C17 (as claimed): a total scale or a fee that intelligent_inference
\* produced and that the merged record took over still carries its inferred
\* flag in the merged record.
C17_InferredValuesStayFlagged ==
    (returned # NotReturned /\ returned.completed) =>
        LET final_data == returned.final_data
            merged == returned.value
            original == call.structured_data
        IN /\ (/\ final_data.total_scale_inferred
               /\ ~Truthy("total_scale", original.total_scale)
               /\ merged.total_scale = final_data.total_scale)
                  => merged.total_scale_inferred
           /\ \A i \in 1..Len(merged.race_categories) :
                 \A j \in SameName(final_data.race_categories, merged.race_categories[i]) :
                    (/\ final_data.race_categories[j].fee_inferred
                     /\ merged.race_categories[i].fee = final_data.race_categories[j].fee
                     /\ \A k \in SameName(original.race_categories, merged.race_categories[i]) :
                           ~Truthy("fee", original.race_categories[k].fee))
                       => merged.race_categories[i].fee_inferred

Found == {k \in 1..Len(source_results) : source_results[k].found}

\* the record of collector k as collect_from_multiple_sources appends it
Observation(k) ==
    [source_type |-> SourceTypes[k],
     confidence_base |-> source_weights(SourceTypes[k]),
     total_scale |-> source_results[k].total_scale,
     fee |-> source_results[k].fee,
     distance |-> source_results[k].distance]

\* C19: a collector that raises contributes no record and does not fail the
\* pass: the collected list is exactly the records of the collectors that
\* returned one, unchanged and in call order, and validate_and_merge runs.
C19_FailedSourceYieldsNothing ==
    validated # NotValidated =>
          /\ validated # CompletionRaised
          /\ Len(multi_source_data) = Cardinality(Found)
          /\ \A k \in Found : \E i \in 1..Len(multi_source_data) :
                /\ multi_source_data[i] = Observation(k)
                /\ i = Cardinality({j \in Found : j <= k})

C19_Witness ==
    /\ validated # NotValidated
    /\ validated # CompletionRaised
    /\ source_results[1] = SourceRaised
    /\ source_results[2].found
    /\ source_results[3] = SourceRaised
    /\ source_results[4].found
    /\ Len(multi_source_data) = 2

\* -------------------------------------------------------- concurrency claims
\* C20 (as claimed): no two process_event tasks for the same event_id are
\* running at the same time.
C20_OneInFlightPerEvent ==
    \A i, j \in Running :
        all_events[i] = all_events[j] => i = j

\* ------------------------------------------------------------ status claims
\* the reg-btn a elements inside the pkg2 divs of a detail page
CategoryButtons(detail_html) ==
    IF detail_html = EmptyHtml THEN {}
    ELSE LET divs == detail_html.divs
         IN { divs[p[1]].buttons[p[2]] :
                 p \in { q \in (1..MaxDivs) \X (1..MaxButtons) :
                            /\ q[1] <= Len(divs)
                            /\ divs[q[1]].pkg2
                            /\ q[2] <= Len(divs[q[1]].buttons)
                            /\ divs[q[1]].buttons[q[2]].reg_btn } }

\* a register button is one whose text holds "bao ming"
RegisterButton(button) == IsIn(BAOMING, button.text)

\* a closed button is one whose text holds "jie zhi" and is no register button
ClosedButton(button) == IsIn(JIEZHI, button.text) /\ ~RegisterButton(button)

C29_StatusesConsistent ==
    returned # NotReturned /\ returned.fn = "parse_all_categories_status"
    => LET r == returned.value
           open == \E i \in 1..Len(r.categories_info) :
                       r.categories_info[i].registration_status = BAOMINGZHONG
           closed == \E i \in 1..Len(r.categories_info) :
                       r.categories_info[i].registration_status = YIJIEZHI
       IN /\ r.event_status = BAOMINGZHONG <=> open
          /\ r.event_status = YIJIEZHI <=> (~open /\ closed)

\* ------------------------------------------------------------- level claims
\* a text that matches no standard name and no alias, exactly or by
\* containment either way
Unrecognised(raw_level) ==
    /\ Strip(raw_level) \notin {NULL_TEXT, NONE_TEXT, << >>}
    /\ \A i \in 1..Len(STANDARD_LEVELS) :
          /\ Lower(Strip(raw_level)) # Lower(STANDARD_LEVELS[i].standard)
          /\ \A a \in AliasesOf(i) :
                /\ ~IsIn(Lower(a), Lower(Strip(raw_level)))
                /\ ~IsIn(Lower(Strip(raw_level)), Lower(a))

\* C22 (as claimed): standardize maps every alias listed for a level in
\* STANDARD_LEVELS to the standard name of that level, and returns an
\* unrecognised text unchanged.
C22_AliasGivesItsLevel ==
    returned # NotReturned /\ returned.fn = "standardize"
    => /\ \A i \in 1..Len(STANDARD_LEVELS) :
             call.raw_level \in AliasesOf(i)
                => returned.value = STANDARD_LEVELS[i].standard
       /\ Unrecognised(call.raw_level) => returned.value = call.raw_level

\* ------------------------------------------------------------- trail claims
\* an event type is given and names no trail type
NonTrailType(event_type) ==
    /\ event_type \notin {NoType, << >>}
    /\ \A trail_type \in TRAIL_EVENT_TYPES : ~IsIn(trail_type, Lower(event_type))

\* C23 (as claimed): classify_distance returns None for a non-trail event
\* type or a non-positive distance; otherwise a distance inside a group's
\* range gets that group, and OVER_100 is returned only for distances greater
\* than 100 km.
C23_GroupByMagnitude ==
    returned # NotReturned /\ returned.fn = "classify_distance"
    => LET d == call.distance_km
       IN /\ (NonTrailType(call.event_type) \/ d <= 0) => returned.value = NoGroup
          /\ ~NonTrailType(call.event_type) /\ d > 0
               => /\ \A i \in 1..Len(DISTANCE_GROUPS) :
                        DISTANCE_GROUPS[i].min <= d /\ d <= DISTANCE_GROUPS[i].max
                           => returned.value = DISTANCE_GROUPS[i].name
                  /\ returned.value = OVER_100 => d > 1000000

\* --------------------------------------------------------- overwrite claims
\* the pass supplies a value for the field: a number, 0 included, or a
\* non-empty text
Supplied(field, v) == IF field \in StringFields THEN v # "" ELSE v # NULL

\* C24 (as claimed): in a pass of smart_sync_to_mysql, every field of the
\* matched Event and of a matched Variant that is not in its
\* manually_modified_fields and for which the pass supplies a value, 0
\* included, holds the supplied value after the pass; a field without a
\* supplied value is unchanged.
C24_UnprotectedFieldsOverwritten ==
    [][(last'.op = "sync" /\ last'.ok /\ held' # NoData) =>
        LET final_data == process_event_data(held'.data)
        IN /\ \A i \in 1..Len(race_events) :
                 race_events[i].event_id = final_data.event_id
                   => \A f \in {"name"} \ Marked(race_events[i]) :
                         race_events'[i][f] =
                            IF Supplied(f, final_data[f]) THEN final_data[f]
                            ELSE race_events[i][f]
           /\ \A k \in 1..Len(final_data.race_categories) :
                 \A i \in 1..Len(race_categories) :
                    (/\ race_events[race_categories[i].race_event_id].event_id
                           = final_data.event_id
                     /\ race_categories[i].name = final_data.race_categories[k].name)
                    => \A f \in CategoryFields \ Marked(race_categories[i]) :
                          race_categories'[i][f] =
                             IF Supplied(f, final_data.race_categories[k][f])
                             THEN final_data.race_categories[k][f]
                             ELSE race_categories[i][f]]_vars

\* -------------------------------------------------------- fallback claims
\* the values of category `after` that category `before` already had
KeepsValues(before, after) ==
    /\ after.name = before.name
    /\ before.distance # "" => after.distance = before.distance
    /\ Truthy("fee", before.fee) => after.fee = before.fee

\* C25: intelligent_inference leaves every distance, fee and total scale that
\* validate_and_merge resolved as it is, and merge_completed_data leaves every
\* non-empty total scale, distance, fee and quota of the original record as
\* it is.
C25_FallbackFillsOnlyEmpty ==
    (returned # NotReturned /\ returned.fn = "complete_event_data" /\ returned.completed) =>
        LET validated_data == call.validated_data
            final_data == returned.final_data
            original == call.structured_data
            merged == returned.value
        IN /\ Truthy("total_scale", validated_data.total_scale)
                => final_data.total_scale = validated_data.total_scale
           /\ \A i \in 1..Len(validated_data.race_categories) :
                 /\ i <= Len(final_data.race_categories)
                 /\ KeepsValues(validated_data.race_categories[i],
                                final_data.race_categories[i])
           /\ Truthy("total_scale", original.total_scale)
                => merged.total_scale = original.total_scale
           /\ \A i \in 1..Len(original.race_categories) :
                 /\ i <= Len(merged.race_categories)
                 /\ KeepsValues(original.race_categories[i], merged.race_categories[i])
                 /\ Truthy("total_quota", original.race_categories[i].total_quota)
                      => merged.race_categories[i].total_quota
                            = original.race_categories[i].total_quota

\* the inference added a total scale beside a resolved fee, and the merge
\* filled a distance beside a total scale, a fee and a quota the original had
\* and the completion had differently
C25_Witness ==
    /\ returned # NotReturned
    /\ returned.fn = "complete_event_data"
    /\ returned.completed
    /\ returned.final_data.total_scale_inferred
    /\ Len(call.validated_data.race_categories) = 1
    /\ call.validated_data.race_categories[1].fee = 100
    /\ returned.final_data.race_categories[1].fee = 100
    /\ call.structured_data.total_scale = 1000
    /\ returned.final_data.total_scale = 800
    /\ returned.value.total_scale = 1000
    /\ Len(call.structured_data.race_categories) = 1
    /\ call.structured_data.race_categories[1].distance = ""
    /\ call.structured_data.race_categories[1].total_quota = 500
    /\ returned.value.race_categories[1].distance = "21km"
    /\ returned.value.race_categories[1].total_quota = 500

C27_ManualEditSurvivesPass ==
    (held = NoData /\ last.op = "sync" /\ returned # NotReturned
        /\ returned.fn = "import_manual_edits") =>
        /\ returned.window = "event_read" =>
              \A i \in 1..Len(returned.events) :
                 \A f \in Marked(returned.events[i]) :
                    race_events[i][f] = returned.events[i][f]
        /\ returned.window = "category_read" =>
              \A c \in Rows(returned.cats) :
                 c.id = returned.read_id =>
                    \A f \in Marked(c) :
                       /\ HasId(race_categories, c.id)
                       /\ RowOf(race_categories, c.id)[f] = c[f]

\* ------------------------------------------------------- layered completion
\* the values of `before` that are filled in are the values of `after`
LayerKeeps(before, after) ==
    /\ Filled("total_scale", before.total_scale)
          => after.total_scale = before.total_scale
    /\ Len(after.race_categories) >= Len(before.race_categories)
    /\ \A i \in 1..Len(before.race_categories) :
          \A k \in 1..Len(EnhancedFields) :
             LET f == EnhancedFields[k]
             IN Filled(f, before.race_categories[i][f])
                   => after.race_categories[i][f] = before.race_categories[i][f]

\* every layer tried so far: layer 1 at most max_retries times, then 2, then 3
LayersInOrder ==
    LET layers == held.layers
        ones == {i \in 1..Len(layers) : layers[i] = 1}
    IN /\ \A i \in 1..Len(layers) : \A j \in 1..Len(layers) :
             i < j => layers[i] <= layers[j] /\ (layers[i] = layers[j] => layers[i] = 1)
       /\ Cardinality(ones) <= max_retries
       /\ (layers # << >> => layers[1] = 1)
       /\ \A i \in 1..Len(layers) : layers[i] = 3 => \E j \in 1..Len(layers) : layers[j] = 2
       /\ \A i \in 1..Len(layers) : layers[i] = 2 => Cardinality(ones) = max_retries

\* the fields check_missing_fields reports for a record, those of the event
\* under position 0
ReportedMissing(structured_data) ==
    {<<0, f>> : f \in check_missing_fields(structured_data).missing_fields}
    \cup check_missing_fields(structured_data).incomplete_categories

\* the fields of a record that have no value: total_scale, and distance, fee
\* and total_quota of every category position up to MaxCats, where a category
\* the record does not have has none of them
WithoutValue(structured_data) ==
    (IF Filled("total_scale", structured_data.total_scale)
     THEN {} ELSE {<<0, "total_scale">>})
    \cup {<<idx, f>> \in (1..MaxCats) \X {"distance", "fee", "total_quota"} :
             \/ idx > Len(structured_data.race_categories)
             \/ ~Filled(f, structured_data.race_categories[idx][f])}

\* C28 as stated: in every step of complete_event_data a filled total_scale,
\* distance, fee or total_quota keeps its value, the set of missing fields
\* that check_missing_fields reports after the step is a subset of the set
\* reported before it, and the layers run in the order 1 (at most max_retries
\* times), 2, 3.
C28_LayersFillOnly ==
    [][/\ LayerKeeps(held.structured_data, held'.structured_data)
       /\ ReportedMissing(held'.structured_data) \subseteq ReportedMissing(held.structured_data)
       /\ LayersInOrder']_vars

\* C28, amended: in every step of complete_event_data a filled total_scale,
\* distance, fee or total_quota keeps its value, the set of fields without a
\* value (an absent category counting as without any) after the step is a
\* subset of the set before it, and the layers run in the order 1 (at most
\* max_retries times), 2, 3.
C28_LayersFillOnlyAmended ==
    [][/\ LayerKeeps(held.structured_data, held'.structured_data)
       /\ WithoutValue(held'.structured_data) \subseteq WithoutValue(held.structured_data)
       /\ LayersInOrder']_vars

\* all three retries of layer 1 and layers 2 and 3 have run, a layer filled a
\* fee beside a distance the record had and the completion had differently
C28_Witness ==
    /\ held.pc = "done"
    /\ held.layers = <<1, 1, 1, 2, 3>>
    /\ call.structured_data.race_categories # << >>
    /\ call.structured_data.race_categories[1].distance = "21.0975km"
    /\ call.structured_data.race_categories[1].fee = NULL
    /\ held.structured_data.race_categories[1].distance = "21.0975km"
    /\ held.structured_data.race_categories[1].fee = 120
    /\ held.structured_data.completion_source = "web"

\* ----------------------------------------------------- date-filtered crawl
\* C30: a date-filtered call of crawl_all_events that stops early has just
\* seen STOP_THRESHOLD consecutive list pages of that call without a valid
\* event, a valid page in between starting the count again and the pages of
\* an earlier call on the same crawler not counting.
C30_StopsAfterThresholdOfThisCall ==
    held.stopped => held.run >= STOP_THRESHOLD

====
